---- MODULE Spec2Model ----
(***************************************************************************)
(* Model of the Elkyn/Antler store (src/antler.rs): a hierarchical         *)
(* key-value store with a group-commit WAL, a memtable, immutable sorted   *)
(* segments with a block index and a bloom filter, and a manifest.         *)
(*                                                                         *)
(* Strings are sequences of bytes (paths) or opaque value tokens with a    *)
(* length.  Files are sequences of cells [w |-> width in bytes, v |-> the  *)
(* field stored in these bytes]; readers address files by byte offset and  *)
(* width exactly as the code does, so a reader and a writer that disagree  *)
(* on a layout do not round-trip.                                          *)
(***************************************************************************)
EXTENDS Integers, Sequences, FiniteSets, TLC

VARIABLES
  alive,          \* TRUE while a Store is open in the (single) process
  seq,            \* StoreInner.seq
  memtable,       \* StoreInner.memtable: key -> MemValue
  memtable_size,  \* StoreInner.memtable_size
  segments_l0,    \* StoreInner.segments_l0: sequence of Segment handles
  segments_l1,    \* StoreInner.segments_l1
  segments_l2,    \* StoreInner.segments_l2
  subtombs,       \* StoreInner.subtombs: prefix -> seq
  buffer,         \* GroupCommitWAL.buffer: pending WALEntry records
  manifest,       \* Manifest.entries (in memory)
  wal_file,       \* disk: wal.log, a sequence of chunks (magic, frames)
  manifest_file,  \* disk: manifest.log, a sequence of lines
  seg_files,      \* disk: segment file name -> cells
  lastOp,         \* history: the last call and its result
  writes,         \* history: key -> latest acknowledged set/delete
  tombs,          \* history: every acknowledged subtree tombstone
  issued,         \* history: number of mutations that were given a seq
  ended,          \* history: number of processes that crashed or closed
  seg_writer,     \* segment harness: the SegmentWriter being filled, or None
  seg_handle,     \* segment harness: the Segment handle, or None
  seg_file,       \* segment harness: disk, the segment file once finished
  seg_added,      \* segment harness: history, the records given to add
  callers,        \* caller threads: where each is in its call
  assigned,       \* history: <<thread, seq>> of every seq given, in order
  cache,          \* BlockCache.cache: block key -> length of the buffer held
  cache_size,     \* BlockCache.size
  loaders,        \* threads in get_or_load between the read and the insert
  shut,           \* Drop and the flusher thread: positions, mutexes, flag
  locks           \* lock by lock: who holds each lock, what each thread has left

vars == <<alive, seq, memtable, memtable_size, segments_l0, segments_l1,
          segments_l2, subtombs, buffer, manifest, wal_file, manifest_file,
          seg_files, lastOp, writes, tombs, issued, ended, seg_writer,
          seg_handle, seg_file, seg_added, callers, assigned, cache,
          cache_size, loaders, shut, locks>>

\* Drop has not begun, the flusher thread sleeps, both mutexes are free
Running ==
  [flusher |-> "sleep", dropper |-> "none", buffer_mutex |-> "free",
   shutdown_mutex |-> "free", shutdown |-> FALSE, late_ticks |-> 0]

\* every lock is free and no thread is in a call
Unlocked ==
  [held |-> [l \in {"inner", "buffer", "shutdown", "manifest", "cache",
                     "size"} |-> {}],
   todo |-> [t \in {"c1", "c2", "flusher", "dropper"} |-> <<>>],
   shutdown |-> FALSE, dropped |-> FALSE, stopped |-> FALSE]

\* the variables of the block cache harness
cache_state == <<cache, cache_size, loaders>>

\* the variables of the segment harness and of the caller threads, which
\* the calls taken as one step leave alone
harness ==
  <<seg_writer, seg_handle, seg_file, seg_added, callers, assigned, cache,
    cache_size, loaders, shut, locks>>

(***************************************************************************)
(* Bounds of the model.                                                    *)
(***************************************************************************)
\* mutations (set, delete, delete_subtree calls that get a seq) explored
MaxMutations == 2
\* length in bytes of every value written
ValueLen == 131056
\* processes that end (by a crash or by dropping the Store) in SpecCrash
MaxEnded == 2

(***************************************************************************)
(* Program constants.                                                      *)
(***************************************************************************)
RT_SET == 1
RT_DEL_POINT == 2
RT_DEL_SUB == 3
BLOCK_SIZE == 4096
MEMTABLE_THRESHOLD == 262144
WAL_SYNC_PENDING == 100
BLOOM_BITS == 10000
BLOOM_HASHES == 7
MAGIC_LEN == 7
WAL_MAGIC_LEN == 4
FOOTER_LEN == 32
Slash == 47
Tilde == 126
Bar == 124
NewLine == 10

MAGIC == "ELKYN03"
WAL_MAGIC == "WAL2"

(***************************************************************************)
(* Options and strings.                                                    *)
(***************************************************************************)
None == <<>>
Some(x) == <<x>>
IsSome(o) == o # <<>>
Unwrap(o) == o[1]

Min(a, b) == IF a < b THEN a ELSE b

\* f(e), with e evaluated once
Let(e, f(_)) == CHOOSE r \in {f(x) : x \in {e}} : TRUE

\* str::starts_with
StartsWith(s, p) == Len(p) <= Len(s) /\ SubSeq(s, 1, Len(p)) = p

\* str::ends_with('/')
EndsWithSlash(s) == Len(s) > 0 /\ s[Len(s)] = Slash

\* byte-wise lexicographic order of str (Ord for String)
StrLess(a, b) ==
  \E i \in 1..Len(b) :
    /\ i - 1 <= Len(a)
    /\ SubSeq(a, 1, i - 1) = SubSeq(b, 1, i - 1)
    /\ (i > Len(a) \/ a[i] < b[i])

StrLeq(a, b) == a = b \/ StrLess(a, b)

\* the keys of a BTreeMap in iteration order
RECURSIVE SortedKeys(_)
SortedKeys(S) ==
  IF S = {} THEN <<>>
  ELSE LET m == CHOOSE k \in S : \A o \in S : StrLeq(k, o)
       IN <<m>> \o SortedKeys(S \ {m})

\* format!("{}/", path)
WithSlash(path) == Append(path, Slash)

\* fn parent_path
parent_path(path) ==
  LET idxs == {i \in 1..Len(path) : path[i] = Slash} IN
  IF idxs = {} THEN None
  ELSE LET last == CHOOSE i \in idxs : \A j \in idxs : j <= i  \* rfind, 1-based
       IN IF last - 1 > 0 THEN Some(SubSeq(path, 1, last - 1)) ELSE None

\* format!("{}", n): the decimal digits of n
RECURSIVE Digits(_)
Digits(n) ==
  IF n < 10 THEN <<48 + n>> ELSE Append(Digits(n \div 10), 48 + (n % 10))

\* format!("{:010}", n)
Pad10(n) ==
  LET d == Digits(n)
  IN IF Len(d) >= 10 THEN d ELSE [i \in 1..(10 - Len(d)) |-> 48] \o d

RECURSIVE ParseDigits(_, _)
ParseDigits(s, acc) ==
  IF s = <<>> THEN Some(acc)
  ELSE IF Head(s) \in 48..57 THEN ParseDigits(Tail(s), acc * 10 + (Head(s) - 48))
  ELSE None

\* str::parse::<u64>, str::parse::<usize> (of text without a sign)
ParseNum(s) == IF s = <<>> THEN None ELSE ParseDigits(s, 0)

\* str::split(sep), and the lines BufRead::read_line yields for sep = '\n'
RECURSIVE Split(_, _)
Split(s, sep) ==
  LET idxs == {i \in 1..Len(s) : s[i] = sep} IN
  IF idxs = {} THEN <<s>>
  ELSE LET first == CHOOSE i \in idxs : \A j \in idxs : i <= j
       IN <<SubSeq(s, 1, first - 1)>> \o Split(SubSeq(s, first + 1, Len(s)), sep)

\* the white space str::trim removes
WhiteSpace == {9, 10, 11, 12, 13, 32}

\* str::trim
RECURSIVE Trim(_)
Trim(s) ==
  IF s = <<>> THEN s
  ELSE IF Head(s) \in WhiteSpace THEN Trim(Tail(s))
  ELSE IF s[Len(s)] \in WhiteSpace THEN Trim(SubSeq(s, 1, Len(s) - 1))
  ELSE s

\* the paths used as inputs: "a", "a/b", "a/b/c"
P_a == <<97>>
P_ab == <<97, 47, 98>>
P_abc == <<97, 47, 98, 47, 99>>
Keys == {P_a, P_ab, P_abc}
\* the keys given to a SegmentWriter: those and "a/c"
P_ac == <<97, 47, 99>>
SegKeys == Keys \cup {P_ac}
\* the arguments of delete_subtree: "a", "a/", "a/b"
Prefixes == {P_a, WithSlash(P_a), P_ab}
\* the subtree queries issued by readers: "a/", "a/b/"
SubtreeQueries == {WithSlash(P_a), WithSlash(P_ab)}

\* the threads that call the Store concurrently
Threads == {"t1", "t2"}
\* a thread that is in no call
Idle == [pc |-> "idle"]

\* a value: an opaque string of len bytes, identified by id
Value(id, len) == [id |-> id, len |-> len]

(***************************************************************************)
(* u64 arithmetic.  A u64 is its 8 little-endian bytes.                    *)
(***************************************************************************)
\* a small number (< 2^31) as u64
U64(n) ==
  [i \in 1..8 |-> IF i <= 3 THEN (n \div (256 ^ (i - 1))) % 256
                  ELSE IF i = 4 THEN n \div (256 ^ 3) ELSE 0]

RECURSIVE AddLimbs(_, _, _, _)
AddLimbs(a, b, i, carry) ==
  IF i > 8 THEN <<>>
  ELSE LET t == a[i] + b[i] + carry
       IN <<t % 256>> \o AddLimbs(a, b, i + 1, t \div 256)

\* u64::wrapping_add
wrapping_add(a, b) == AddLimbs(a, b, 1, 0)

RECURSIVE SumProducts(_, _, _, _)
SumProducts(a, b, k, i) ==
  IF i > k THEN 0 ELSE a[i] * b[k + 1 - i] + SumProducts(a, b, k, i + 1)

RECURSIVE MulLimbs(_, _, _, _)
MulLimbs(a, b, k, carry) ==
  IF k > 8 THEN <<>>
  ELSE LET t == SumProducts(a, b, k, 1) + carry
       IN <<t % 256>> \o MulLimbs(a, b, k + 1, t \div 256)

\* u64::wrapping_mul
wrapping_mul(a, b) == MulLimbs(a, b, 1, 0)

BitOf(h, j) == (h[(j \div 8) + 1] \div (2 ^ (j % 8))) % 2

\* (h << 31) | (h >> 33): bit j of the result is bit (j - 31) mod 64 of h
rotl31(h) ==
  [i \in 1..8 |->
     LET b(m) == BitOf(h, ((i - 1) * 8 + m + 33) % 64)
     IN b(0) + 2 * b(1) + 4 * b(2) + 8 * b(3) + 16 * b(4) + 32 * b(5)
        + 64 * b(6) + 128 * b(7)]

RECURSIVE ModLimbs(_, _, _, _)
ModLimbs(h, m, i, acc) ==
  IF i < 1 THEN acc ELSE ModLimbs(h, m, i - 1, (acc * 256 + h[i]) % m)

\* h as usize % m
ModU64(h, m) == ModLimbs(h, m, 8, 0)

\* 0x9e3779b97f4a7c15
XX_PRIME == <<21, 124, 74, 127, 185, 121, 55, 158>>

\* one 8-byte chunk of data, little-endian, zero padded
ChunkVal(data, from) ==
  [i \in 1..8 |-> IF from + i - 1 <= Len(data) THEN data[from + i - 1] ELSE 0]

RECURSIVE XxChunks(_, _, _)
XxChunks(data, from, h) ==
  IF from > Len(data) THEN h
  ELSE Let(wrapping_mul(h, XX_PRIME), LAMBDA m :
       Let(wrapping_add(m, ChunkVal(data, from)), LAMBDA a :
       Let(rotl31(a), LAMBDA r : XxChunks(data, from + 8, r))))

\* fn xxhash(data, seed)
xxhash(data, seed) ==
  Let(wrapping_add(U64(seed), U64(Len(data))), LAMBDA h : XxChunks(data, 1, h))

(***************************************************************************)
(* Bloom filter.  bits is the set of the indexes of the bits that are set  *)
(* in the byte array (bit hash % 8 of byte hash / 8 has index hash).       *)
(***************************************************************************)
\* xxhash(key.as_bytes(), i as u64) as usize % bit_count, for every input
\* key and every i below BLOOM_HASHES, with bit_count = BLOOM_BITS
XxTable ==
  [key \in SegKeys |->
     [i \in 0..(BLOOM_HASHES - 1) |-> ModU64(xxhash(key, i), BLOOM_BITS)]]

\* xxhash(key.as_bytes(), i as u64) as usize % self.bit_count
BloomHash(key, i, bit_count) ==
  IF bit_count = BLOOM_BITS /\ key \in SegKeys /\ i < BLOOM_HASHES
  THEN XxTable[key][i]
  ELSE ModU64(xxhash(key, i), bit_count)

\* a filter of one bit less, whose bit_count is not a multiple of 8: a
\* faulty variant of bloom_new, on which C23 fails
bloom_new_unaligned(bit_count, hash_count) ==
  [bits |-> {}, nbytes |-> (bit_count + 6) \div 8,
   bit_count |-> bit_count - 1, hash_count |-> hash_count]

\* BloomFilter::new
bloom_new(bit_count, hash_count) ==
  [bits |-> {}, nbytes |-> (bit_count + 7) \div 8,
   bit_count |-> bit_count, hash_count |-> hash_count]

\* BloomFilter::add
bloom_add(b, key) ==
  [b EXCEPT !.bits = @ \cup {BloomHash(key, i, b.bit_count) :
                                i \in 0..(b.hash_count - 1)}]

\* BloomFilter::might_contain
might_contain(b, key) ==
  \A i \in 0..(b.hash_count - 1) : BloomHash(key, i, b.bit_count) \in b.bits

(***************************************************************************)
(* Files as sequences of cells, read by byte offset and width.             *)
(***************************************************************************)
\* w bytes holding v; k tells what v is, so that two fields are compared
\* by content only when they hold the same kind of data
Bytes(k, w, v) == [k |-> k, v |-> v, w |-> w]

\* an integer written with to_le_bytes (or one byte pushed)
Cell(w, v) == Bytes("int", w, v)

\* the bytes of a str: nothing for the empty string
StrCells(k, str, len) == IF len = 0 THEN <<>> ELSE <<Bytes(k, len, str)>>

\* n bytes that are only a part of a field
Partial(n) == Bytes("partial", n, 0)

RECURSIVE TotalLen(_)
TotalLen(cells) ==
  IF cells = <<>> THEN 0 ELSE Head(cells).w + TotalLen(Tail(cells))

RECURSIVE ReadFrom(_, _, _, _, _)
ReadFrom(cells, i, off, pos, n) ==
  IF i > Len(cells) \/ off > pos THEN None
  ELSE IF off = pos
       THEN (IF cells[i].w = n THEN Some(cells[i]) ELSE None)
       ELSE ReadFrom(cells, i + 1, off + cells[i].w, pos, n)

\* the field held by the n bytes at offset pos: None when these bytes are
\* not exactly one field as it was written (the reader then sees bytes of
\* other fields, which it cannot interpret)
ReadAt(cells, pos, n) ==
  IF n = 0 THEN Some(<<>>)
  ELSE LET c == ReadFrom(cells, 1, 0, pos, n)
       IN IF c = None THEN None ELSE Some(Unwrap(c).v)

\* the same, when the bytes must hold a field of kind k to mean anything
ReadKind(cells, pos, n, k) ==
  LET c == ReadFrom(cells, 1, 0, pos, n)
  IN IF c # None /\ Unwrap(c).k = k THEN Some(Unwrap(c).v) ELSE None

RECURSIVE SliceFrom(_, _, _, _, _)
SliceFrom(cells, i, off, from, to) ==
  IF i > Len(cells) \/ off >= to THEN <<>>
  ELSE IF off < from
       THEN (IF off + cells[i].w > from
             THEN <<Partial(Min(off + cells[i].w, to) - from)>>
             ELSE <<>>)
            \o SliceFrom(cells, i + 1, off + cells[i].w, from, to)
       ELSE (IF off + cells[i].w <= to THEN <<cells[i]>>
             ELSE <<Partial(to - off)>>)
            \o SliceFrom(cells, i + 1, off + cells[i].w, from, to)

\* the bytes [from, to) of a file
Slice(cells, from, to) == SliceFrom(cells, 1, 0, from, to)

\* an io::Error result; Ok results are None or Some(x)
IoErr == <<"io", "error">>
IsErr(r) == Len(r) = 2

(***************************************************************************)
(* Segment writer.                                                         *)
(***************************************************************************)
\* stands for u64::MAX, the initial seq_low
SEQ_LOW_INIT == 2147483647

\* SegmentWriter::new
writer_new(path) ==
  [path |-> path,
   file |-> <<Bytes("magic", MAGIC_LEN, MAGIC)>>,
   seq_low |-> SEQ_LOW_INIT, seq_high |-> 0, key_count |-> 0,
   current_block |-> <<>>,
   index |-> <<>>,
   bloom |-> bloom_new(BLOOM_BITS, BLOOM_HASHES),
   written |-> MAGIC_LEN]

\* flush_block that does not advance written: a faulty variant, on which
\* C14 fails
flush_block_written_stale(w) ==
  IF w.current_block = <<>> THEN w
  ELSE [w EXCEPT !.file = @ \o w.current_block,
                 !.current_block = <<>>]

\* SegmentWriter::flush_block
flush_block(w) ==
  IF w.current_block = <<>> THEN w
  ELSE [w EXCEPT !.file = @ \o w.current_block,
                 !.written = @ + TotalLen(w.current_block),
                 !.current_block = <<>>]

\* the record built by SegmentWriter::add: seq, kind, klen, vlen, key, value
SegRecord(rec_type, key, value, s) ==
  <<Cell(8, s), Cell(1, rec_type), Cell(4, Len(key)),
    Cell(4, IF IsSome(value) THEN Unwrap(value).len ELSE 0)>>
  \o StrCells("key", key, Len(key))
  \o (IF IsSome(value) THEN StrCells("val", Unwrap(value), Unwrap(value).len)
      ELSE <<>>)

\* SegmentWriter::add
writer_add(w0, rec_type, key, value, s) ==
  Let(SegRecord(rec_type, key, value, s), LAMBDA record :
  Let([w0 EXCEPT !.bloom = bloom_add(@, key),
                 !.seq_low = IF s < @ THEN s ELSE @,
                 !.seq_high = IF s > @ THEN s ELSE @], LAMBDA w1 :
  Let(IF TotalLen(w1.current_block) + TotalLen(record) > BLOCK_SIZE
      THEN flush_block(w1) ELSE w1, LAMBDA w2 :
  Let(IF w2.current_block = <<>>
      THEN [w2 EXCEPT !.index = Append(@, <<key, w2.written>>)] ELSE w2,
      LAMBDA w3 :
  [w3 EXCEPT !.current_block = @ \o record, !.key_count = @ + 1]))))

RECURSIVE IndexCells(_)
IndexCells(index) ==
  IF index = <<>> THEN <<>>
  ELSE <<Cell(4, Len(Head(index)[1])), Cell(8, Head(index)[2])>>
       \o StrCells("key", Head(index)[1], Len(Head(index)[1]))
       \o IndexCells(Tail(index))

\* SegmentWriter::finish: the file written and the handle returned
writer_finish(w0) ==
  Let(flush_block(w0), LAMBDA w :
  Let(IndexCells(w.index), LAMBDA index_data :
  LET index_start == w.written
      footer == <<Cell(8, w.seq_low), Cell(8, w.seq_high), Cell(4, w.key_count),
                  Cell(4, TotalLen(index_data)), Cell(4, w.bloom.nbytes),
                  Cell(4, w.bloom.hash_count)>>
  IN [file |-> w.file \o index_data
               \o <<Bytes("bloom", w.bloom.nbytes, w.bloom.bits)>>
               \o footer,
      seg |-> [path |-> w.path, seq_high |-> w.seq_high,
               bloom |-> Some(w.bloom), index |-> w.index,
               index_start |-> index_start]]))

(***************************************************************************)
(* Segment reader.                                                         *)
(***************************************************************************)
RECURSIVE ParseIndex(_, _)
ParseIndex(index_data, pos) ==
  LET len == TotalLen(index_data) IN
  IF ~(pos < len) \/ pos + 12 > len THEN <<>>
  ELSE LET klen == ReadAt(index_data, pos, 4)
           offset == ReadAt(index_data, pos + 4, 8)
       IN IF klen = None \/ offset = None THEN <<>>
          ELSE IF pos + 12 + Unwrap(klen) > len THEN <<>>
          ELSE LET key == ReadAt(index_data, pos + 12, Unwrap(klen))
               IN IF key = None THEN <<>>
                  ELSE <<<<Unwrap(key), Unwrap(offset)>>>>
                       \o ParseIndex(index_data, pos + 12 + Unwrap(klen))

\* Segment::open: Some(handle), or None when it returns Err
segment_open(path, file) ==
  LET file_len == TotalLen(file)
      magic == ReadAt(file, 0, MAGIC_LEN)
      fpos == file_len - FOOTER_LEN
      seq_high == ReadAt(file, fpos + 8, 8)
      index_size == ReadAt(file, fpos + 20, 4)
      bloom_size == ReadAt(file, fpos + 24, 4)
      hash_count == ReadAt(file, fpos + 28, 4)
  IN
  IF file_len < MAGIC_LEN \/ magic # Some(MAGIC) THEN None
  ELSE IF fpos < 0 \/ None \in {seq_high, index_size, bloom_size, hash_count}
  THEN None
  ELSE
    LET isz == Unwrap(index_size)
        bsz == Unwrap(bloom_size)
        index_start == file_len - FOOTER_LEN - isz - bsz
        bits == ReadAt(file, file_len - FOOTER_LEN - bsz, bsz)
        bloom == IF bsz > 0
                 THEN Some([bits |-> Unwrap(bits), nbytes |-> bsz,
                            bit_count |-> bsz * 8,
                            hash_count |-> Unwrap(hash_count)])
                 ELSE None
    IN IF index_start < 0 \/ (bsz > 0 /\ bits = None) THEN None
       ELSE Some([path |-> path, seq_high |-> Unwrap(seq_high),
                  bloom |-> bloom,
                  index |-> ParseIndex(Slice(file, index_start, index_start + isz), 0),
                  index_start |-> index_start])

(***************************************************************************)
(* Reads.  st is the state of the program: the fields of StoreInner, the   *)
(* WAL buffer, the manifest, and the files of the store's directory.       *)
(***************************************************************************)
\* BlockCache::get_or_load on a miss: the bytes, or IoErr.  The cache holds
\* only copies of these bytes.
get_or_load(files, path, offset, size) ==
  IF path \notin DOMAIN files \/ size < 0 THEN IoErr
  ELSE IF offset + size > TotalLen(files[path]) THEN IoErr
  ELSE Some(Slice(files[path], offset, offset + size))

\* Store::covered_by_subtomb
covered_by_subtomb(tombstones, key, s) ==
  \E prefix \in DOMAIN tombstones :
    StartsWith(key, prefix) /\ tombstones[prefix] >= s

\* the block parser of get_from_segment
RECURSIVE LookupInBlock(_, _, _)
LookupInBlock(block_data, pos, key) ==
  LET len == TotalLen(block_data) IN
  IF ~(pos + 8 < len) THEN None
  ELSE
    LET s == ReadAt(block_data, pos, 8)
        rec_type == ReadAt(block_data, pos + 8, 1)
        klen == ReadAt(block_data, pos + 9, 4)
        vlen == ReadAt(block_data, pos + 13, 4)
    IN
    IF pos + 8 >= len \/ pos + 9 + 4 > len \/ pos + 13 + 4 > len THEN None
    ELSE IF None \in {s, rec_type, klen, vlen} THEN None
    ELSE IF pos + 17 + Unwrap(klen) > len THEN None
    ELSE
      LET k == ReadAt(block_data, pos + 17, Unwrap(klen))
          vpos == pos + 17 + Unwrap(klen)
      IN
      IF k = Some(key) /\ Unwrap(rec_type) = RT_SET
      THEN IF vpos + Unwrap(vlen) > len THEN None
           ELSE LET v == ReadAt(block_data, vpos, Unwrap(vlen))
                IN IF v = None THEN None
                   ELSE Some(<<Unwrap(v), Unwrap(s)>>)
      ELSE LookupInBlock(block_data, vpos + Unwrap(vlen), key)

\* Store::get_from_segment: None, Some(<<value, seq>>) or IoErr
get_from_segment(files, seg, key) ==
  LET le == {i \in 1..Len(seg.index) : StrLeq(seg.index[i][1], key)}
      \* binary_search_by_key: Ok(i) => i, Err(i) if i > 0 => i - 1
      idx == Cardinality(le)
  IN
  IF idx = 0 THEN None
  ELSE
    LET offset == seg.index[idx][2]
        next_offset == IF idx + 1 <= Len(seg.index)
                       THEN seg.index[idx + 1][2] ELSE seg.index_start
    IN Let(get_or_load(files, seg.path, offset, next_offset - offset),
           LAMBDA block_data :
           IF IsErr(block_data) THEN IoErr
           ELSE LookupInBlock(Unwrap(block_data), 0, key))

\* the block parser of scan_segment
RECURSIVE ScanBlock(_, _, _, _)
ScanBlock(block_data, pos, start, end) ==
  LET len == TotalLen(block_data) IN
  IF ~(pos + 8 < len) THEN <<>>
  ELSE
    LET s == ReadAt(block_data, pos, 8)
        rec_type == ReadAt(block_data, pos + 8, 1)
        klen == ReadAt(block_data, pos + 9, 4)
        vlen == ReadAt(block_data, pos + 13, 4)
    IN
    IF pos + 8 >= len \/ pos + 9 + 8 > len THEN <<>>
    ELSE IF None \in {s, rec_type, klen, vlen} THEN <<>>
    ELSE IF pos + 17 + Unwrap(klen) + Unwrap(vlen) > len THEN <<>>
    ELSE
      LET k == ReadAt(block_data, pos + 17, Unwrap(klen))
          vpos == pos + 17 + Unwrap(klen)
          v == ReadAt(block_data, vpos, Unwrap(vlen))
      IN
      IF k = None \/ v = None THEN <<>>
      ELSE (IF /\ StrLeq(start, Unwrap(k)) /\ StrLess(Unwrap(k), end)
               /\ Unwrap(rec_type) = RT_SET
            THEN <<<<Unwrap(k), Unwrap(v), Unwrap(s)>>>> ELSE <<>>)
           \o ScanBlock(block_data, vpos + Unwrap(vlen), start, end)

RECURSIVE ScanIndex(_, _, _, _, _)
ScanIndex(files, seg, i, start, end) ==
  IF i > Len(seg.index) THEN Some(<<>>)
  ELSE
    LET idx_key == seg.index[i][1]
        offset == seg.index[i][2]
        later == {j \in 1..Len(seg.index) : StrLess(idx_key, seg.index[j][1])}
        next_offset == IF later = {} THEN seg.index_start
                       ELSE seg.index[CHOOSE j \in later : \A m \in later : j <= m][2]
    IN
    IF StrLeq(start, idx_key) /\ StrLess(idx_key, end)
    THEN Let(get_or_load(files, seg.path, offset, next_offset - offset),
             LAMBDA block_data :
         Let(ScanIndex(files, seg, i + 1, start, end), LAMBDA rest :
             IF IsErr(block_data) \/ IsErr(rest) THEN IoErr
             ELSE Some(ScanBlock(Unwrap(block_data), 0, start, end)
                       \o Unwrap(rest))))
    ELSE ScanIndex(files, seg, i + 1, start, end)

\* Store::scan_segment: Some(the <<key, value, seq>> found) or IoErr
scan_segment(files, seg, start, end) == ScanIndex(files, seg, 1, start, end)

\* segments_l0.iter().chain(segments_l1.iter()).chain(segments_l2.iter())
AllSegments(st) == st.segments_l0 \o st.segments_l1 \o st.segments_l2

\* the loop of Store::get over the segments, from segment i with the best
\* candidate so far
RECURSIVE GetFromSegments(_, _, _, _)
GetFromSegments(st, path, i, result) ==
  LET segs == AllSegments(st) IN
  IF i > Len(segs) THEN (IF result = None THEN None ELSE Some(Unwrap(result)[1]))
  ELSE
    LET seg == segs[i] IN
    IF IsSome(seg.bloom) /\ ~might_contain(Unwrap(seg.bloom), path)
    THEN GetFromSegments(st, path, i + 1, result)
    ELSE
      Let(get_from_segment(st.seg_files, seg, path), LAMBDA found :
      IF IsErr(found) THEN IoErr
      ELSE IF /\ found # None
              /\ ~covered_by_subtomb(st.subtombs, path, Unwrap(found)[2])
              /\ (result = None \/ Unwrap(found)[2] > Unwrap(result)[2])
      THEN GetFromSegments(st, path, i + 1, found)
      ELSE GetFromSegments(st, path, i + 1, result))

\* add the records scanned from one segment to the tree of get_subtree
RECURSIVE MergeScan(_, _, _)
MergeScan(tree, recs, tombstones) ==
  IF recs = <<>> THEN tree
  ELSE
    LET k == Head(recs)[1]
        v == Head(recs)[2]
        s == Head(recs)[3]
        tree1 == IF /\ ~covered_by_subtomb(tombstones, k, s)
                    /\ (k \notin DOMAIN tree \/ tree[k][2] < s)
                 THEN [x \in DOMAIN tree \cup {k} |->
                         IF x = k THEN <<v, s>> ELSE tree[x]]
                 ELSE tree
    IN MergeScan(tree1, Tail(recs), tombstones)

RECURSIVE SubtreeFromSegments(_, _, _, _)
SubtreeFromSegments(st, prefix, i, tree) ==
  LET segs == AllSegments(st) IN
  IF i > Len(segs) THEN Some(tree)
  ELSE Let(scan_segment(st.seg_files, segs[i], prefix, Append(prefix, Tilde)),
           LAMBDA recs :
           IF IsErr(recs) THEN IoErr
           ELSE SubtreeFromSegments(st, prefix, i + 1,
                                    MergeScan(tree, Unwrap(recs), st.subtombs)))

\* Store::tree_to_json: the members of the object, in key order, each
\* <<key relative to the prefix, value>>
tree_to_json(tree, prefix) ==
  LET ks == SortedKeys(DOMAIN tree) IN
  [i \in 1..Len(ks) |->
     <<SubSeq(ks[i], Len(prefix) + 1, Len(ks[i])), tree[ks[i]][1]>>]

\* Store::get_subtree
get_subtree(st, prefix) ==
  LET mem == {k \in DOMAIN st.memtable :
                /\ StartsWith(k, prefix)
                /\ st.memtable[k].tag = "Scalar"
                /\ ~covered_by_subtomb(st.subtombs, k, st.memtable[k].seq)}
      tree0 == [k \in mem |-> <<st.memtable[k].val, st.memtable[k].seq>>]
  IN Let(SubtreeFromSegments(st, prefix, 1, tree0), LAMBDA tree :
         IF IsErr(tree) THEN IoErr
         ELSE IF DOMAIN Unwrap(tree) = {} THEN None
         ELSE Some(tree_to_json(Unwrap(tree), prefix)))

\* Store::get: None, Some(value), Some(json) for a subtree query, or IoErr
get(st, path) ==
  IF EndsWithSlash(path) THEN get_subtree(st, path)
  ELSE IF path \in DOMAIN st.memtable
  THEN LET mv == st.memtable[path] IN
       IF mv.tag = "Scalar" /\ ~covered_by_subtomb(st.subtombs, path, mv.seq)
       THEN Some(mv.val) ELSE None
  ELSE GetFromSegments(st, path, 1, None)

(***************************************************************************)
(* Write-ahead log.  wal.log is a sequence of chunks, each the bytes one   *)
(* step of sync_now put in the file: the magic, then one chunk per frame.  *)
(* A chunk is [cells, entry]: cells are its bytes, entry is Some(e) when   *)
(* the chunk is the complete frame of the WALEntry e and None otherwise.   *)
(* Readers see only the concatenation of the cells (WalBytes).             *)
(***************************************************************************)
Chunk(cells, entry) == [cells |-> cells, entry |-> entry]

\* the bytes of wal.log
RECURSIVE WalBytes(_)
WalBytes(chunks) ==
  IF chunks = <<>> THEN <<>> ELSE Head(chunks).cells \o WalBytes(Tail(chunks))

\* fn crc32: the checksum of a byte string, taken to be free of collisions
crc32(data) == [crc32 |-> data]

WALEntry(s, kind, key, value) ==
  [seq |-> s, kind |-> kind, key |-> key, value |-> value]

\* the record sync_now builds for an entry: seq, kind, klen, key, [vlen, value]
WalRecord(entry) ==
  <<Cell(8, entry.seq), Cell(1, entry.kind), Cell(4, Len(entry.key))>>
  \o StrCells("key", entry.key, Len(entry.key))
  \o (IF IsSome(entry.value)
      THEN <<Cell(4, Unwrap(entry.value).len)>>
           \o StrCells("val", Unwrap(entry.value), Unwrap(entry.value).len)
      ELSE <<>>)

\* the three write_all calls of sync_now for an entry: len, record, crc
WalFrame(entry) ==
  LET record == WalRecord(entry)
  IN <<Cell(4, TotalLen(record))>> \o record
     \o <<Bytes("crc", 4, crc32(record))>>

\* the frames sync_now writes for the drained entries, in their order
WalFrames(entries) ==
  [i \in 1..Len(entries) |-> Chunk(WalFrame(entries[i]), Some(entries[i]))]

\* the magic sync_now writes first when the file is empty
MagicChunks(file) ==
  IF \A i \in DOMAIN file : TotalLen(file[i].cells) = 0
  THEN <<Chunk(<<Bytes("magic", WAL_MAGIC_LEN, WAL_MAGIC)>>, None)>>
  ELSE <<>>

\* the chunks a complete sync_now appends to wal.log for the pending entries
SyncChunks(file, entries) == MagicChunks(file) \o WalFrames(entries)

\* sync_now that writes the pending records and leaves them in the buffer:
\* a faulty variant, on which C29 fails
sync_now_keeps_buffer(st) ==
  IF st.buffer = <<>> THEN st
  ELSE [st EXCEPT !.wal_file = @ \o SyncChunks(st.wal_file, st.buffer)]

\* GroupCommitWAL::sync_now (no I/O failure)
sync_now(st) ==
  IF st.buffer = <<>> THEN st
  ELSE [st EXCEPT !.wal_file = @ \o SyncChunks(st.wal_file, st.buffer),
                  !.buffer = <<>>]

\* where a process that dies inside sync_now can stop after k whole frames:
\* before the next frame, or inside its len, its record or its crc; or, with
\* no frame written, inside the magic
Tears == {"none", "len", "record", "crc", "magic"}

\* the part of the frame of entry that is in the file when the process dies
\* at tear
TornFrame(entry, tear) ==
  LET frame == WalFrame(entry) IN
  IF tear = "len" THEN <<Partial(2)>>
  ELSE IF tear = "record" THEN <<frame[1], frame[2]>>
  ELSE SubSeq(frame, 1, Len(frame) - 1) \o <<Partial(2)>>

\* what sync_now has appended to wal.log when the process dies after k whole
\* frames at tear
TornSyncChunks(file, entries, k, tear) ==
  IF tear = "magic" THEN <<Chunk(<<Partial(2)>>, None)>>
  ELSE MagicChunks(file) \o WalFrames(SubSeq(entries, 1, k))
       \o (IF tear = "none" THEN <<>>
           ELSE <<Chunk(TornFrame(entries[k + 1], tear), None)>>)

\* append that puts the entry before the pending ones: a faulty variant, on
\* which C18 fails
append_in_front(st, entry) ==
  LET st1 == [st EXCEPT !.buffer = <<entry>> \o @]
  IN IF Len(st1.buffer) > WAL_SYNC_PENDING THEN sync_now(st1) ELSE st1

\* GroupCommitWAL::append
append(st, entry) ==
  LET st1 == [st EXCEPT !.buffer = Append(@, entry)]
  IN IF Len(st1.buffer) > WAL_SYNC_PENDING THEN sync_now(st1) ELSE st1

(***************************************************************************)
(* Store: the mutating operations.                                         *)
(***************************************************************************)
Scalar(v, s) == [tag |-> "Scalar", val |-> v, seq |-> s]
PointTomb(s) == [tag |-> "PointTomb", val |-> None, seq |-> s]

\* BTreeMap::insert, HashMap::insert
MapPut(m, k, v) == [x \in DOMAIN m \cup {k} |-> IF x = k THEN v ELSE m[x]]

EmptyMap == [x \in {} |-> 0]

\* format!("l0_{:010}.seg", seq)
SegFileName(s) == <<108, 48, 95>> \o Pad10(s) \o <<46, 115, 101, 103>>

ManifestEntry(seq_high, level, filename) ==
  [seq_high |-> seq_high, level |-> level, filename |-> filename]

\* writeln!(file, "{}|{}|{}", entry.seq_high, entry.level, entry.filename)
ManifestLine(entry) ==
  Digits(entry.seq_high) \o <<Bar>> \o Digits(entry.level) \o <<Bar>>
  \o entry.filename \o <<NewLine>>

\* Manifest::add_entry
add_entry(st, entry) ==
  [st EXCEPT !.manifest = Append(@, entry),
             !.manifest_file = @ \o ManifestLine(entry)]

\* the loop over the memtable that leaves the point tombstones out: a
\* faulty variant of WriteEntries, on which C30 fails
RECURSIVE WriteEntries_scalars_only(_, _, _)
WriteEntries_scalars_only(w, mem, ks) ==
  IF ks = <<>> THEN w
  ELSE LET k == Head(ks)
           v == mem[k]
       IN WriteEntries_scalars_only(
            IF v.tag = "Scalar" THEN writer_add(w, RT_SET, k, Some(v.val), v.seq)
            ELSE w,
            mem, Tail(ks))

\* the loop of flush_memtable_locked over the memtable, in key order
RECURSIVE WriteEntries(_, _, _)
WriteEntries(w, mem, ks) ==
  IF ks = <<>> THEN w
  ELSE LET k == Head(ks)
           v == mem[k]
       IN WriteEntries(
            IF v.tag = "Scalar" THEN writer_add(w, RT_SET, k, Some(v.val), v.seq)
            ELSE writer_add(w, RT_DEL_POINT, k, None, v.seq),
            mem, Tail(ks))

\* Store::flush_memtable_locked
flush_memtable_locked(st) ==
  IF DOMAIN st.memtable = {} THEN st
  ELSE
    LET filename == SegFileName(st.seq)
        writer == WriteEntries(writer_new(filename), st.memtable,
                               SortedKeys(DOMAIN st.memtable))
    IN Let(writer_finish(writer), LAMBDA fin :
       LET st1 == [st EXCEPT !.seg_files = MapPut(@, filename, fin.file)]
           st2 == add_entry(st1, ManifestEntry(fin.seg.seq_high, 0, filename))
           st3 == [st2 EXCEPT !.segments_l0 = Append(@, fin.seg),
                              !.memtable = EmptyMap,
                              !.memtable_size = 0]
       IN sync_now(st3))

\* Store::flush
store_flush(st) == sync_now(flush_memtable_locked(st))

\* the tree check of Store::set: "Ok", "InvalidInput", or "IoErr" when the
\* read of the parent fails
tree_check(st, path) ==
  LET parent == parent_path(path) IN
  IF parent = None THEN "Ok"
  ELSE Let(get(st, Unwrap(parent)), LAMBDA r :
           IF IsErr(r) THEN "IoErr"
           ELSE IF IsSome(r) THEN "InvalidInput" ELSE "Ok")

\* set_write without the subtree tombstone of replace_subtree: a faulty
\* variant, on which C6 fails
set_write_no_subtomb(st, path, value, replace_subtree) ==
  LET s == st.seq + 1
      st1 == [st EXCEPT !.seq = s]
      st2 == IF replace_subtree
             THEN LET c == append(st1, WALEntry(s, RT_DEL_POINT, path, None))
                  IN [c EXCEPT !.memtable = MapPut(@, path, PointTomb(s))]
             ELSE st1
      st3 == append(st2, WALEntry(s, RT_SET, path, Some(value)))
  IN Let([st3 EXCEPT !.memtable = MapPut(@, path, Scalar(value, s)),
                     !.memtable_size = @ + Len(path) + value.len + 16],
         LAMBDA st4 :
         IF st4.memtable_size >= MEMTABLE_THRESHOLD
         THEN flush_memtable_locked(st4) ELSE st4)

\* Store::set after the tree check
set_write(st, path, value, replace_subtree) ==
  LET s == st.seq + 1
      st1 == [st EXCEPT !.seq = s]
      st2 == IF replace_subtree
             THEN LET prefix == WithSlash(path)
                      a == append(st1, WALEntry(s, RT_DEL_SUB, prefix, None))
                      b == [a EXCEPT !.subtombs = MapPut(@, prefix, s)]
                      c == append(b, WALEntry(s, RT_DEL_POINT, path, None))
                  IN [c EXCEPT !.memtable = MapPut(@, path, PointTomb(s))]
             ELSE st1
      st3 == append(st2, WALEntry(s, RT_SET, path, Some(value)))
  IN Let([st3 EXCEPT !.memtable = MapPut(@, path, Scalar(value, s)),
                     !.memtable_size = @ + Len(path) + value.len + 16],
         LAMBDA st4 :
         IF st4.memtable_size >= MEMTABLE_THRESHOLD
         THEN flush_memtable_locked(st4) ELSE st4)

\* store_set taking its seq before the tree check: a faulty variant, on
\* which C4 fails
store_set_seq_first(st, path, value, replace_subtree) ==
  Let(tree_check(st, path), LAMBDA chk :
      IF chk # "Ok" THEN [st |-> [st EXCEPT !.seq = @ + 1], res |-> chk]
      ELSE [st |-> set_write(st, path, value, replace_subtree), res |-> "Ok"])

\* Store::set: the state it leaves and its result
store_set(st, path, value, replace_subtree) ==
  Let(tree_check(st, path), LAMBDA chk :
      IF chk # "Ok" THEN [st |-> st, res |-> chk]
      ELSE [st |-> set_write(st, path, value, replace_subtree), res |-> "Ok"])

\* Store::delete
store_delete(st, path) ==
  LET s == st.seq + 1
      st1 == append([st EXCEPT !.seq = s], WALEntry(s, RT_DEL_POINT, path, None))
  IN [st1 EXCEPT !.memtable = MapPut(@, path, PointTomb(s))]

\* the prefix as given: a faulty variant of normalize_prefix, on which C8
\* fails
normalize_prefix_as_given(prefix) == prefix

\* the prefix delete_subtree records for its argument
normalize_prefix(prefix) ==
  IF EndsWithSlash(prefix) THEN prefix ELSE WithSlash(prefix)

\* delete_subtree that only logs the tombstone: a faulty variant, on which
\* C7 fails
store_delete_subtree_log_only(st, prefix0) ==
  LET s == st.seq + 1
  IN append([st EXCEPT !.seq = s],
            WALEntry(s, RT_DEL_SUB, normalize_prefix(prefix0), None))

\* Store::delete_subtree
store_delete_subtree(st, prefix0) ==
  LET s == st.seq + 1
      prefix == normalize_prefix(prefix0)
      st1 == append([st EXCEPT !.seq = s], WALEntry(s, RT_DEL_SUB, prefix, None))
  IN [st1 EXCEPT !.subtombs = MapPut(@, prefix, s)]

(***************************************************************************)
(* Opening a store on the files a previous process left.                   *)
(***************************************************************************)
\* one line of manifest.log: Some(entry), or None when the line is skipped
ParseManifestLine(line) ==
  LET parts == Split(Trim(line), Bar) IN
  IF Len(parts) # 3 THEN None
  ELSE LET seq_high == ParseNum(parts[1])
           level == ParseNum(parts[2])
       IN IF seq_high = None \/ level = None THEN None
          ELSE Some(ManifestEntry(Unwrap(seq_high), Unwrap(level), parts[3]))

RECURSIVE ParseManifestLines(_)
ParseManifestLines(lines) ==
  IF lines = <<>> THEN <<>>
  ELSE LET e == ParseManifestLine(Head(lines))
       IN (IF e = None THEN <<>> ELSE <<Unwrap(e)>>)
          \o ParseManifestLines(Tail(lines))

\* Manifest::load: the entries of manifest.log
manifest_load(bytes) == ParseManifestLines(Split(bytes, NewLine))

\* the loop of Store::open over the entries of the manifest
RECURSIVE LoadSegments(_, _)
LoadSegments(st, entries) ==
  IF entries = <<>> THEN st
  ELSE
    LET entry == Head(entries) IN
    Let(IF entry.filename \in DOMAIN st.seg_files
        THEN segment_open(entry.filename, st.seg_files[entry.filename])
        ELSE None, LAMBDA seg :
    IF seg = None THEN LoadSegments(st, Tail(entries))
    ELSE
      LET h == Unwrap(seg)
          st1 == IF entry.level = 0
                 THEN [st EXCEPT !.segments_l0 = Append(@, h)]
                 ELSE IF entry.level = 1
                 THEN [st EXCEPT !.segments_l1 = Append(@, h)]
                 ELSE IF entry.level = 2
                 THEN [st EXCEPT !.segments_l2 = Append(@, h)]
                 ELSE st
      IN LoadSegments([st1 EXCEPT !.seq = IF h.seq_high > @ THEN h.seq_high ELSE @],
                      Tail(entries)))

\* ApplyWalRecord that leaves seq as it is: a faulty variant, on which C17
\* fails
ApplyWalRecord_seq_kept(st, record) ==
  LET len == TotalLen(record) IN
  IF len < 13 THEN st
  ELSE
    LET s == Unwrap(ReadAt(record, 0, 8))
        kind == Unwrap(ReadAt(record, 8, 1))
        klen == Unwrap(ReadAt(record, 9, 4))
    IN
    IF len < 13 + klen THEN st
    ELSE
      LET key == Unwrap(ReadAt(record, 13, klen))
          st1 ==
            IF kind = RT_SET
            THEN IF len >= 17 + klen
                 THEN LET vlen == Unwrap(ReadAt(record, 13 + klen, 4))
                      IN IF len >= 17 + klen + vlen
                         THEN LET val == Unwrap(ReadAt(record, 17 + klen, vlen))
                              IN [st EXCEPT
                                    !.memtable = MapPut(@, key, Scalar(val, s)),
                                    !.memtable_size = @ + Len(key) + vlen + 16]
                         ELSE st
                 ELSE st
            ELSE IF kind = RT_DEL_POINT
            THEN [st EXCEPT !.memtable = MapPut(@, key, PointTomb(s))]
            ELSE IF kind = RT_DEL_SUB
            THEN [st EXCEPT !.subtombs = MapPut(@, key, s)]
            ELSE st
      IN st1

\* the body of the loop of replay_wal for a record with a valid CRC
ApplyWalRecord(st, record) ==
  LET len == TotalLen(record) IN
  IF len < 13 THEN st
  ELSE
    LET s == Unwrap(ReadAt(record, 0, 8))
        kind == Unwrap(ReadAt(record, 8, 1))
        klen == Unwrap(ReadAt(record, 9, 4))
    IN
    IF len < 13 + klen THEN st
    ELSE
      LET key == Unwrap(ReadAt(record, 13, klen))
          st1 ==
            IF kind = RT_SET
            THEN IF len >= 17 + klen
                 THEN LET vlen == Unwrap(ReadAt(record, 13 + klen, 4))
                      IN IF len >= 17 + klen + vlen
                         THEN LET val == Unwrap(ReadAt(record, 17 + klen, vlen))
                              IN [st EXCEPT
                                    !.memtable = MapPut(@, key, Scalar(val, s)),
                                    !.memtable_size = @ + Len(key) + vlen + 16]
                         ELSE st
                 ELSE st
            ELSE IF kind = RT_DEL_POINT
            THEN [st EXCEPT !.memtable = MapPut(@, key, PointTomb(s))]
            ELSE IF kind = RT_DEL_SUB
            THEN [st EXCEPT !.subtombs = MapPut(@, key, s)]
            ELSE st
      IN [st1 EXCEPT !.seq = IF s > @ THEN s ELSE @]

\* the loop of replay_wal, reading the frame at pos
RECURSIVE ReplayFrom(_, _, _)
ReplayFrom(st, data, pos) ==
  LET total == TotalLen(data)
      len == ReadKind(data, pos, 4, "int")
  IN
  IF pos + 4 > total \/ len = None THEN st
  ELSE
    LET rpos == pos + 4
        cpos == rpos + Unwrap(len)
        crc == ReadKind(data, cpos, 4, "crc")
    IN
    IF cpos > total \/ cpos + 4 > total \/ crc = None THEN st
    ELSE Let(Slice(data, rpos, cpos), LAMBDA record :
         IF crc32(record) # Unwrap(crc) THEN st
         ELSE ReplayFrom(ApplyWalRecord(st, record), data, cpos + 4))

\* StoreInner::replay_wal
replay_wal(st) ==
  LET data == WalBytes(st.wal_file) IN
  IF st.wal_file = <<>> THEN st
  ELSE IF TotalLen(data) < WAL_MAGIC_LEN THEN st
  ELSE IF ReadKind(data, 0, WAL_MAGIC_LEN, "magic") # Some(WAL_MAGIC) THEN st
  ELSE ReplayFrom(st, data, WAL_MAGIC_LEN)

\* Store::open on the files wal_file, manifest_file, seg_files
store_open(wal, mfile, files) ==
  Let(manifest_load(mfile), LAMBDA entries :
  replay_wal(LoadSegments(
    [seq |-> 0, memtable |-> EmptyMap, memtable_size |-> 0,
     segments_l0 |-> <<>>, segments_l1 |-> <<>>, segments_l2 |-> <<>>,
     subtombs |-> EmptyMap, buffer |-> <<>>, manifest |-> entries,
     wal_file |-> wal, manifest_file |-> mfile, seg_files |-> files],
    entries)))

(***************************************************************************)
(* The state machine.                                                      *)
(***************************************************************************)
\* the program's state as the operators above take it
Cur ==
  [seq |-> seq, memtable |-> memtable, memtable_size |-> memtable_size,
   segments_l0 |-> segments_l0, segments_l1 |-> segments_l1,
   segments_l2 |-> segments_l2, subtombs |-> subtombs, buffer |-> buffer,
   manifest |-> manifest, wal_file |-> wal_file,
   manifest_file |-> manifest_file, seg_files |-> seg_files]

Install(st) ==
  /\ seq' = st.seq
  /\ memtable' = st.memtable
  /\ memtable_size' = st.memtable_size
  /\ segments_l0' = st.segments_l0
  /\ segments_l1' = st.segments_l1
  /\ segments_l2' = st.segments_l2
  /\ subtombs' = st.subtombs
  /\ buffer' = st.buffer
  /\ manifest' = st.manifest
  /\ wal_file' = st.wal_file
  /\ manifest_file' = st.manifest_file
  /\ seg_files' = st.seg_files

Op(op, path, value, replace, res) ==
  [op |-> op, path |-> path, value |-> value, replace |-> replace, res |-> res]

\* history: an acknowledged set or delete of a key
Write(kind, val, s, replace) ==
  [kind |-> kind, val |-> val, seq |-> s, replace |-> replace]

\* history: an acknowledged subtree tombstone, written by a delete_subtree
\* or by a set with replace_subtree
Tomb(prefix, s, by) == [prefix |-> prefix, seq |-> s, by |-> by]

\* prefix with one trailing '/'
OneTrailingSlash(prefix) ==
  IF EndsWithSlash(prefix) THEN prefix ELSE WithSlash(prefix)

\* Store::open on a directory that does not exist yet
Init ==
  /\ alive = TRUE
  /\ seq = 0
  /\ memtable = EmptyMap
  /\ memtable_size = 0
  /\ segments_l0 = <<>>
  /\ segments_l1 = <<>>
  /\ segments_l2 = <<>>
  /\ subtombs = EmptyMap
  /\ buffer = <<>>
  /\ manifest = <<>>
  /\ wal_file = <<>>
  /\ manifest_file = <<>>
  /\ seg_files = EmptyMap
  /\ lastOp = Op("open", <<>>, None, FALSE, "Ok")
  /\ writes = EmptyMap
  /\ tombs = {}
  /\ issued = 0
  /\ ended = 0
  /\ seg_writer = None
  /\ seg_handle = None
  /\ seg_file = <<>>
  /\ seg_added = <<>>
  /\ callers = [t \in Threads |-> Idle]
  /\ assigned = <<>>
  /\ cache = EmptyMap
  /\ cache_size = 0
  /\ loaders = [t \in Threads |-> None]
  /\ shut = Running
  /\ locks = Unlocked

\* a call of Store::set
Set(path, replace_subtree) ==
  /\ alive
  /\ \E value \in {Value(issued + 1, ValueLen)} :
     \E r \in {store_set(Cur, path, value, replace_subtree)} :
        /\ r.res = "Ok" => issued < MaxMutations
        /\ Install(r.st)
        /\ lastOp' = Op("set", path, Some(value), replace_subtree, r.res)
        /\ IF r.res = "Ok"
           THEN /\ issued' = issued + 1
                /\ writes' = MapPut(writes, path,
                                    Write("set", value, r.st.seq, replace_subtree))
                /\ tombs' = IF replace_subtree
                            THEN tombs \cup {Tomb(WithSlash(path), r.st.seq, "set")}
                            ELSE tombs
           ELSE UNCHANGED <<issued, writes, tombs>>
  /\ UNCHANGED <<alive, ended>>
  /\ UNCHANGED harness

\* a call of Store::delete
Delete(path) ==
  /\ alive
  /\ issued < MaxMutations
  /\ \E st \in {store_delete(Cur, path)} :
        /\ Install(st)
        /\ writes' = MapPut(writes, path, Write("delete", None, st.seq, FALSE))
  /\ lastOp' = Op("delete", path, None, FALSE, "Ok")
  /\ issued' = issued + 1
  /\ UNCHANGED <<alive, ended, tombs>>
  /\ UNCHANGED harness

\* a call of Store::delete_subtree
DeleteSubtree(prefix) ==
  /\ alive
  /\ issued < MaxMutations
  /\ \E st \in {store_delete_subtree(Cur, prefix)} :
        /\ Install(st)
        /\ tombs' = tombs \cup {Tomb(OneTrailingSlash(prefix), st.seq,
                                     "delete_subtree")}
  /\ lastOp' = Op("delete_subtree", prefix, None, FALSE, "Ok")
  /\ issued' = issued + 1
  /\ UNCHANGED <<alive, ended, writes>>
  /\ UNCHANGED harness

\* a call of Store::flush
Flush ==
  /\ alive
  /\ \E st \in {store_flush(Cur)} : Install(st)
  /\ lastOp' = Op("flush", <<>>, None, FALSE, "Ok")
  /\ UNCHANGED <<alive, ended, writes, tombs, issued>>
  /\ UNCHANGED harness

\* a tick that wakes up and does not call sync_now: a faulty variant of
\* FlusherTick, on which C19 fails
FlusherTick_without_sync ==
  /\ alive
  /\ buffer # <<>>
  /\ lastOp' = Op("tick", <<>>, None, FALSE, "Ok")
  /\ UNCHANGED <<seq, memtable, memtable_size, segments_l0, segments_l1,
                 segments_l2, subtombs, buffer, manifest, wal_file,
                 manifest_file, seg_files>>
  /\ UNCHANGED <<alive, ended, writes, tombs, issued>>
  /\ UNCHANGED harness

\* one tick of the background flusher thread started by Store::open
FlusherTick ==
  /\ alive
  /\ buffer # <<>>
  /\ \E st \in {sync_now(Cur)} : Install(st)
  /\ lastOp' = Op("tick", <<>>, None, FALSE, "Ok")
  /\ UNCHANGED <<alive, ended, writes, tombs, issued>>
  /\ UNCHANGED harness

\* the memory of a process that is gone
Gone ==
  /\ alive' = FALSE
  /\ seq' = 0
  /\ memtable' = EmptyMap
  /\ memtable_size' = 0
  /\ segments_l0' = <<>>
  /\ segments_l1' = <<>>
  /\ segments_l2' = <<>>
  /\ subtombs' = EmptyMap
  /\ buffer' = <<>>
  /\ manifest' = <<>>

\* the process dies while the flusher thread is in sync_now, after k whole
\* frames at tear; with nothing pending, it dies outside sync_now
Crash(k, tear) ==
  /\ alive
  /\ ended < MaxEnded
  /\ k <= Len(buffer)
  /\ tear # "none" => k < Len(buffer)
  /\ tear = "magic" => k = 0 /\ TotalLen(WalBytes(wal_file)) = 0
  /\ Gone
  /\ wal_file' = IF buffer = <<>> THEN wal_file
                 ELSE wal_file \o TornSyncChunks(wal_file, buffer, k, tear)
  /\ ended' = ended + 1
  /\ lastOp' = Op("crash", <<>>, None, FALSE, "Ok")
  /\ UNCHANGED <<manifest_file, seg_files, writes, tombs, issued>>
  /\ UNCHANGED harness

\* the Store is dropped: Drop for Store
Close ==
  /\ alive
  /\ ended < MaxEnded
  /\ Gone
  /\ wal_file' = sync_now(Cur).wal_file
  /\ ended' = ended + 1
  /\ lastOp' = Op("close", <<>>, None, FALSE, "Ok")
  /\ UNCHANGED <<manifest_file, seg_files, writes, tombs, issued>>
  /\ UNCHANGED harness

\* a new process calls Store::open on the same directory
Reopen ==
  /\ ~alive
  /\ alive' = TRUE
  /\ \E st \in {store_open(wal_file, manifest_file, seg_files)} : Install(st)
  /\ lastOp' = Op("open", <<>>, None, FALSE, "Ok")
  /\ UNCHANGED <<writes, tombs, issued, ended>>
  /\ UNCHANGED harness

Next ==
  \/ \E path \in Keys, replace_subtree \in BOOLEAN : Set(path, replace_subtree)
  \/ \E path \in Keys : Delete(path)
  \/ \E prefix \in Prefixes : DeleteSubtree(prefix)
  \/ Flush
  \/ FlusherTick

Spec == Init /\ [][Next]_vars

\* the same with crashes, drops and reopenings of the store
NextCrash ==
  \/ Next
  \/ \E k \in 0..Len(buffer), tear \in Tears : Crash(k, tear)
  \/ Close
  \/ Reopen

SpecCrash == Init /\ [][NextCrash]_vars

\* crashes and reopenings explored in SpecRestart
MaxRestarts == 1

\* calls on one path, with crashes at every point of sync_now and
\* reopenings
NextRestart ==
  \/ \E replace_subtree \in BOOLEAN : Set(P_a, replace_subtree)
  \/ Delete(P_a)
  \/ DeleteSubtree(P_a)
  \/ Flush
  \/ FlusherTick
  \/ /\ ended < MaxRestarts
     /\ \E k \in 0..Len(buffer), tear \in Tears : Crash(k, tear)
  \/ Reopen

SpecRestart == Init /\ [][NextRestart]_vars

(***************************************************************************)
(* Segment harness: a SegmentWriter is given records in ascending key      *)
(* order, finish() is called, and the file is opened with Segment::open.   *)
(***************************************************************************)
\* value lengths: records that share a block and records that fill one
SegSmallLen == 8
SegLargeLen == 4000
\* seqs given to the records added
MaxSegSeq == 1

\* the segment file written: "l0_0000000001.seg"
SegPath == SegFileName(1)
\* the keys looked up: those, and "0", "a/a", "b", which are never added
LookupKeys == SegKeys \cup {<<48>>, <<97, 47, 97>>, <<98>>}
\* the bounds of the scans: "a", "a/", "a/b", "a/b/", "a/c", "a/~", "b"
ScanBounds ==
  {P_a, WithSlash(P_a), P_ab, WithSlash(P_ab), P_ac,
   WithSlash(P_a) \o <<Tilde>>, <<98>>}

\* history: a record given to SegmentWriter::add
SegRec(rec_type, key, value, s) ==
  [rec_type |-> rec_type, key |-> key, value |-> value, seq |-> s]

\* the variables of the store, which the segment harness leaves alone
store_state ==
  <<alive, seq, memtable, memtable_size, segments_l0, segments_l1,
    segments_l2, subtombs, buffer, manifest, wal_file, manifest_file,
    seg_files, writes, tombs, issued, ended, callers, assigned, cache,
    cache_size, loaders, shut, locks>>

\* SegmentWriter::new on the segment file, with no Store open
InitSeg ==
  /\ alive = FALSE
  /\ seq = 0
  /\ memtable = EmptyMap
  /\ memtable_size = 0
  /\ segments_l0 = <<>>
  /\ segments_l1 = <<>>
  /\ segments_l2 = <<>>
  /\ subtombs = EmptyMap
  /\ buffer = <<>>
  /\ manifest = <<>>
  /\ wal_file = <<>>
  /\ manifest_file = <<>>
  /\ seg_files = EmptyMap
  /\ lastOp = Op("new", SegPath, None, FALSE, "Ok")
  /\ writes = EmptyMap
  /\ tombs = {}
  /\ issued = 0
  /\ ended = 0
  /\ seg_writer = Some(writer_new(SegPath))
  /\ seg_handle = None
  /\ seg_file = <<>>
  /\ seg_added = <<>>
  /\ callers = [t \in Threads |-> Idle]
  /\ assigned = <<>>
  /\ cache = EmptyMap
  /\ cache_size = 0
  /\ loaders = [t \in Threads |-> None]
  /\ shut = Running
  /\ locks = Unlocked

\* the keys greater than every key added
KeysAfter(added) ==
  {k \in SegKeys : \A i \in DOMAIN added : StrLess(added[i].key, k)}

\* a call of SegmentWriter::add, with a key greater than the keys added
SegAdd(rec_type, key, len, s) ==
  /\ seg_writer # None
  /\ key \in KeysAfter(seg_added)
  /\ rec_type = RT_DEL_POINT => len = SegSmallLen
  /\ \E value \in {IF rec_type = RT_SET
                    THEN Some(Value(Len(seg_added) + 1, len)) ELSE None} :
       /\ seg_writer' = Some(writer_add(Unwrap(seg_writer), rec_type, key,
                                        value, s))
       /\ seg_added' = Append(seg_added, SegRec(rec_type, key, value, s))
       /\ lastOp' = Op("add", key, value, FALSE, "Ok")
  /\ UNCHANGED <<seg_handle, seg_file>>
  /\ UNCHANGED store_state

\* a call of SegmentWriter::finish
SegFinish ==
  /\ seg_writer # None
  /\ \E fin \in {writer_finish(Unwrap(seg_writer))} :
       /\ seg_file' = fin.file
       /\ seg_handle' = Some(fin.seg)
  /\ seg_writer' = None
  /\ lastOp' = Op("finish", SegPath, None, FALSE, "Ok")
  /\ UNCHANGED seg_added
  /\ UNCHANGED store_state

\* a call of Segment::open on the finished file
SegOpen ==
  /\ seg_writer = None
  /\ lastOp.op = "finish"
  /\ \E seg \in {segment_open(SegPath, seg_file)} :
       /\ seg_handle' = seg
       /\ lastOp' = Op("segment_open", SegPath, None, FALSE,
                       IF seg = None THEN "Err" ELSE "Ok")
  /\ UNCHANGED <<seg_writer, seg_file, seg_added>>
  /\ UNCHANGED store_state

NextSeg ==
  \/ \E rec_type \in {RT_SET, RT_DEL_POINT}, key \in SegKeys,
        len \in {SegSmallLen, SegLargeLen}, s \in 1..MaxSegSeq :
       SegAdd(rec_type, key, len, s)
  \/ SegFinish
  \/ SegOpen

SpecSeg == InitSeg /\ [][NextSeg]_vars

(***************************************************************************)
(* Concurrent callers.  A mutation holds the write lock of Store.inner     *)
(* from the increment of seq to its return, and every append and every     *)
(* sync_now holds the mutex of the WAL buffer; the steps below are the     *)
(* sections between these lock operations.  While a caller holds the write *)
(* lock only the flusher thread, which takes the buffer mutex alone, runs. *)
(***************************************************************************)
\* no thread holds the write lock of Store.inner
LockFree == \A t \in Threads : callers[t].pc # "locked"

\* the calls that have begun and were not given a seq yet
Waiting == {t \in Threads : callers[t].pc = "checked"}

Call(op, path, value, replace) ==
  [op |-> op, path |-> path, value |-> value, replace |-> replace]

\* inner.seq without the increment: a faulty variant of next_seq, on which
\* C16 fails
next_seq_kept(s) == s

\* inner.seq += 1; let seq = inner.seq
next_seq(s) == s + 1

\* a set with replace_subtree that appends its SET record first: a faulty
\* variant of call_entries, on which C28 fails
call_entries_set_first(call, s) ==
  IF call.op = "set"
  THEN <<WALEntry(s, RT_SET, call.path, call.value)>>
       \o (IF call.replace
           THEN <<WALEntry(s, RT_DEL_SUB, WithSlash(call.path), None),
                  WALEntry(s, RT_DEL_POINT, call.path, None)>>
           ELSE <<>>)
  ELSE IF call.op = "delete"
  THEN <<WALEntry(s, RT_DEL_POINT, call.path, None)>>
  ELSE <<WALEntry(s, RT_DEL_SUB, normalize_prefix(call.path), None)>>

\* the WAL entries a mutation appends, in the order of its append calls
call_entries(call, s) ==
  IF call.op = "set"
  THEN (IF call.replace
        THEN <<WALEntry(s, RT_DEL_SUB, WithSlash(call.path), None),
               WALEntry(s, RT_DEL_POINT, call.path, None)>>
        ELSE <<>>)
       \o <<WALEntry(s, RT_SET, call.path, call.value)>>
  ELSE IF call.op = "delete"
  THEN <<WALEntry(s, RT_DEL_POINT, call.path, None)>>
  ELSE <<WALEntry(s, RT_DEL_SUB, normalize_prefix(call.path), None)>>

\* what a mutation does to StoreInner right after the append of entry
after_append(st, entry) ==
  IF entry.kind = RT_DEL_SUB
  THEN [st EXCEPT !.subtombs = MapPut(@, entry.key, entry.seq)]
  ELSE IF entry.kind = RT_DEL_POINT
  THEN [st EXCEPT !.memtable = MapPut(@, entry.key, PointTomb(entry.seq))]
  ELSE [st EXCEPT
          !.memtable = MapPut(@, entry.key,
                              Scalar(Unwrap(entry.value), entry.seq)),
          !.memtable_size = @ + Len(entry.key) + Unwrap(entry.value).len + 16]

\* Store::set up to its tree check, which reads under the read lock
CallSet(t, path, replace_subtree) ==
  /\ alive
  /\ callers[t].pc = "idle"
  /\ LockFree
  /\ issued + Cardinality(Waiting) < MaxMutations
  /\ \E value \in {Value(issued + Cardinality(Waiting) + 1, ValueLen)} :
     \E chk \in {tree_check(Cur, path)} :
       IF chk = "Ok"
       THEN /\ callers' = [callers EXCEPT ![t] =
                             [pc |-> "checked",
                              call |-> Call("set", path, Some(value),
                                            replace_subtree)]]
            /\ UNCHANGED lastOp
       ELSE /\ lastOp' = Op("set", path, Some(value), replace_subtree, chk)
            /\ UNCHANGED callers
  /\ UNCHANGED <<alive, seq, memtable, memtable_size, segments_l0,
                 segments_l1, segments_l2, subtombs, buffer, manifest,
                 wal_file, manifest_file, seg_files, writes, tombs, issued,
                 ended, seg_writer, seg_handle, seg_file, seg_added,
                 assigned>>
  /\ UNCHANGED cache_state
  /\ UNCHANGED shut
  /\ UNCHANGED locks

\* a mutation takes the write lock and its seq
Lock(t, call) ==
  /\ alive
  /\ LockFree
  /\ seq' = next_seq(seq)
  /\ callers' = [callers EXCEPT ![t] =
                   [pc |-> "locked", call |-> call, seq |-> seq',
                    todo |-> call_entries(call, seq')]]
  /\ assigned' = Append(assigned, <<t, seq'>>)
  /\ issued' = issued + 1
  /\ UNCHANGED <<alive, memtable, memtable_size, segments_l0, segments_l1,
                 segments_l2, subtombs, buffer, manifest, wal_file,
                 manifest_file, seg_files, lastOp, writes, tombs, ended,
                 seg_writer, seg_handle, seg_file, seg_added>>
  /\ UNCHANGED cache_state
  /\ UNCHANGED shut
  /\ UNCHANGED locks

\* Store::set after its tree check
BeginSet(t) ==
  /\ callers[t].pc = "checked"
  /\ Lock(t, callers[t].call)

\* Store::delete
BeginDelete(t, path) ==
  /\ callers[t].pc = "idle"
  /\ issued + Cardinality(Waiting) < MaxMutations
  /\ Lock(t, Call("delete", path, None, FALSE))

\* Store::delete_subtree
BeginDeleteSubtree(t, prefix) ==
  /\ callers[t].pc = "idle"
  /\ issued + Cardinality(Waiting) < MaxMutations
  /\ Lock(t, Call("delete_subtree", prefix, None, FALSE))

\* the next wal.append of the mutation of t and the update that follows it
AppendStep(t) ==
  /\ callers[t].pc = "locked"
  /\ callers[t].todo # <<>>
  /\ \E entry \in {Head(callers[t].todo)} :
       \E st \in {after_append(append(Cur, entry), entry)} : Install(st)
  /\ callers' = [callers EXCEPT ![t].todo = Tail(@)]
  /\ UNCHANGED <<alive, lastOp, writes, tombs, issued, ended, seg_writer,
                 seg_handle, seg_file, seg_added, assigned>>
  /\ UNCHANGED cache_state
  /\ UNCHANGED shut
  /\ UNCHANGED locks

\* the mutation of t returns Ok and releases the write lock; a set first
\* flushes a memtable that reached the threshold
Return(t) ==
  /\ callers[t].pc = "locked"
  /\ callers[t].todo = <<>>
  /\ \E call \in {callers[t].call} :
       /\ \E st \in {IF call.op = "set"
                        /\ memtable_size >= MEMTABLE_THRESHOLD
                      THEN flush_memtable_locked(Cur) ELSE Cur} : Install(st)
       /\ lastOp' = Op(call.op, call.path, call.value, call.replace, "Ok")
       /\ writes' = IF call.op = "set"
                    THEN MapPut(writes, call.path,
                                Write("set", Unwrap(call.value),
                                      callers[t].seq, call.replace))
                    ELSE IF call.op = "delete"
                    THEN MapPut(writes, call.path,
                                Write("delete", None, callers[t].seq, FALSE))
                    ELSE writes
       /\ tombs' = IF call.op = "set" /\ call.replace
                   THEN tombs \cup {Tomb(WithSlash(call.path),
                                          callers[t].seq, "set")}
                   ELSE IF call.op = "delete_subtree"
                   THEN tombs \cup {Tomb(OneTrailingSlash(call.path),
                                          callers[t].seq, "delete_subtree")}
                   ELSE tombs
  /\ callers' = [callers EXCEPT ![t] = Idle]
  /\ UNCHANGED <<alive, issued, ended, seg_writer, seg_handle, seg_file,
                 seg_added, assigned>>
  /\ UNCHANGED cache_state
  /\ UNCHANGED shut
  /\ UNCHANGED locks

\* Store::flush, which holds the write lock from its first line to its last
FlushCall ==
  /\ LockFree
  /\ Flush

\* the paths and the prefix the concurrent callers work on
ConcKeys == {P_a, P_ab}
ConcPrefixes == {P_a}

NextConc ==
  \/ \E t \in Threads, path \in ConcKeys, replace_subtree \in BOOLEAN :
       CallSet(t, path, replace_subtree)
  \/ \E t \in Threads : BeginSet(t)
  \/ \E t \in Threads, path \in ConcKeys : BeginDelete(t, path)
  \/ \E t \in Threads, prefix \in ConcPrefixes :
       BeginDeleteSubtree(t, prefix)
  \/ \E t \in Threads : AppendStep(t)
  \/ \E t \in Threads : Return(t)
  \/ FlushCall
  \/ FlusherTick

SpecConc == Init /\ [][NextConc]_vars

(***************************************************************************)
(* The background flusher under fair scheduling.  The process keeps        *)
(* running; it starts with PendingAtStart records pending, the state of a  *)
(* new store after that many calls of delete before the first tick of the  *)
(* flusher, so that the calls that follow bring the buffer over            *)
(* WAL_SYNC_PENDING.                                                       *)
(***************************************************************************)
PendingAtStart == 99

\* a new store after PendingAtStart calls of Store::delete on P_a, each of
\* which took the next seq, appended its DEL_POINT record and put its
\* tombstone in the memtable
InitLive ==
  /\ alive = TRUE
  /\ seq = PendingAtStart
  /\ memtable = MapPut(EmptyMap, P_a, PointTomb(PendingAtStart))
  /\ memtable_size = 0
  /\ segments_l0 = <<>>
  /\ segments_l1 = <<>>
  /\ segments_l2 = <<>>
  /\ subtombs = EmptyMap
  /\ buffer = [i \in 1..PendingAtStart |->
                 WALEntry(i, RT_DEL_POINT, P_a, None)]
  /\ manifest = <<>>
  /\ wal_file = <<>>
  /\ manifest_file = <<>>
  /\ seg_files = EmptyMap
  /\ lastOp = Op("delete", P_a, None, FALSE, "Ok")
  /\ writes = MapPut(EmptyMap, P_a,
                     Write("delete", None, PendingAtStart, FALSE))
  /\ tombs = {}
  /\ issued = 0
  /\ ended = 0
  /\ seg_writer = None
  /\ seg_handle = None
  /\ seg_file = <<>>
  /\ seg_added = <<>>
  /\ callers = [t \in Threads |-> Idle]
  /\ assigned = <<>>
  /\ cache = EmptyMap
  /\ cache_size = 0
  /\ loaders = [t \in Threads |-> None]
  /\ shut = Running
  /\ locks = Unlocked

NextLive ==
  \/ \E path \in ConcKeys, replace_subtree \in BOOLEAN :
       Set(path, replace_subtree)
  \/ \E path \in ConcKeys : Delete(path)
  \/ \E prefix \in ConcPrefixes : DeleteSubtree(prefix)
  \/ Flush
  \/ FlusherTick

\* the flusher thread loops for as long as the process runs: a tick that
\* stays possible is taken
SpecLive == InitLive /\ [][NextLive]_vars /\ WF_vars(FlusherTick)

(***************************************************************************)
(* I/O failures inside sync_now.  The process keeps running.               *)
(***************************************************************************)
\* where sync_now can return Err: at the open of wal.log, at a write_all
\* (of the magic or of a frame) or at sync_all
FailPoints == {"open", "write", "sync_all"}

\* GroupCommitWAL::sync_now returning Err at the point at; a failed
\* write_all comes after k whole frames and leaves the part tear of the
\* next one in the file.  The for loop runs over buffer.drain(..): once it
\* has begun, leaving it with ? drops the Drain, which removes every entry
\* of the buffer, written or not.
sync_now_failing(st, at, k, tear) ==
  IF at = "open" THEN st
  ELSE IF at = "write" /\ tear = "magic" THEN
    [st EXCEPT !.wal_file = @ \o TornSyncChunks(st.wal_file, st.buffer, 0, tear)]
  ELSE IF at = "write" THEN
    [st EXCEPT !.wal_file = @ \o TornSyncChunks(st.wal_file, st.buffer, k, tear),
               !.buffer = <<>>]
  ELSE [st EXCEPT !.wal_file = @ \o SyncChunks(st.wal_file, st.buffer),
                  !.buffer = <<>>]

\* a tick of the flusher thread whose sync_now fails; the thread ignores
\* the error and goes on
FlusherTickFails(at, k, tear) ==
  /\ alive
  /\ buffer # <<>>
  /\ k < Len(buffer)
  /\ at = "write" <=> tear # "none"
  /\ at # "write" => k = 0
  /\ tear = "magic" => k = 0 /\ TotalLen(WalBytes(wal_file)) = 0
  /\ \E st \in {sync_now_failing(Cur, at, k, tear)} : Install(st)
  /\ lastOp' = Op("tick", <<>>, None, FALSE, "Err")
  /\ UNCHANGED <<alive, ended, writes, tombs, issued>>
  /\ UNCHANGED harness

NextIoFail ==
  \/ \E path \in ConcKeys, replace_subtree \in BOOLEAN :
       Set(path, replace_subtree)
  \/ \E path \in ConcKeys : Delete(path)
  \/ \E prefix \in ConcPrefixes : DeleteSubtree(prefix)
  \/ Flush
  \/ FlusherTick
  \/ \E at \in FailPoints, k \in 0..Len(buffer), tear \in Tears :
       FlusherTickFails(at, k, tear)

SpecIoFail == Init /\ [][NextIoFail]_vars

(***************************************************************************)
(* Mutations that return Err: the sync_now of an append that found more    *)
(* than WAL_SYNC_PENDING records in the buffer fails, and the ? of the     *)
(* mutation returns the error with the write lock still held until then.   *)
(***************************************************************************)
\* the numbers of whole frames a failing write_all comes after
FailedFrames == {0, 1, WAL_SYNC_PENDING}

\* GroupCommitWAL::append whose sync_now returns Err
append_failing(st, entry, at, k, tear) ==
  sync_now_failing([st EXCEPT !.buffer = Append(@, entry)], at, k, tear)

\* a mutation, from its first append on, up to the append whose sync_now
\* returns Err; None when no append of the mutation syncs
RECURSIVE mutation_failing(_, _, _, _, _)
mutation_failing(st, todo, at, k, tear) ==
  IF todo = <<>> THEN None
  ELSE IF Len(st.buffer) + 1 > WAL_SYNC_PENDING
  THEN Some(append_failing(st, Head(todo), at, k, tear))
  ELSE mutation_failing(after_append(append(st, Head(todo)), Head(todo)),
                        Tail(todo), at, k, tear)

\* a call of set, delete or delete_subtree that returns the Err of an append
MutationFails(call, at, k, tear) ==
  /\ alive
  /\ issued < MaxMutations
  /\ call.op = "set" => tree_check(Cur, call.path) = "Ok"
  /\ at = "write" <=> tear # "none"
  /\ at # "write" => k = 0
  /\ tear = "magic" => k = 0 /\ MagicChunks(wal_file) # <<>>
  /\ \E r \in {mutation_failing([Cur EXCEPT !.seq = next_seq(seq)],
                                call_entries(call, next_seq(seq)),
                                at, k, tear)} :
       /\ r # None
       /\ Install(Unwrap(r))
  /\ lastOp' = Op(call.op, call.path, call.value, call.replace, "Err")
  /\ issued' = issued + 1
  /\ UNCHANGED <<alive, ended, writes, tombs>>
  /\ UNCHANGED harness

\* the calls that can fail
FailingCalls ==
  {Call("set", path, Some(Value(issued + 1, ValueLen)), replace_subtree) :
     path \in ConcKeys, replace_subtree \in BOOLEAN}
  \cup {Call("delete", path, None, FALSE) : path \in ConcKeys}
  \cup {Call("delete_subtree", prefix, None, FALSE) : prefix \in ConcPrefixes}

NextAppendFail ==
  \/ \E path \in ConcKeys, replace_subtree \in BOOLEAN :
       Set(path, replace_subtree)
  \/ \E path \in ConcKeys : Delete(path)
  \/ \E prefix \in ConcPrefixes : DeleteSubtree(prefix)
  \/ Flush
  \/ FlusherTick
  \/ \E call \in FailingCalls, at \in FailPoints, k \in FailedFrames,
        tear \in Tears : MutationFails(call, at, k, tear)

SpecAppendFail == InitLive /\ [][NextAppendFail]_vars

(***************************************************************************)
(* Crashes in the middle of a memtable flush.                              *)
(***************************************************************************)
\* where the process can die inside flush_memtable_locked: after finish
\* wrote the segment file, or after add_entry wrote the Manifest line; in
\* both cases before the sync_now at its end
FlushPoints == {"segment", "manifest"}

\* the files flush_memtable_locked has written when it stops at the point at
flush_until(st, at) ==
  LET filename == SegFileName(st.seq)
      writer == WriteEntries(writer_new(filename), st.memtable,
                             SortedKeys(DOMAIN st.memtable))
  IN Let(writer_finish(writer), LAMBDA fin :
     LET st1 == [st EXCEPT !.seg_files = MapPut(@, filename, fin.file)]
     IN IF at = "segment" THEN st1
        ELSE add_entry(st1, ManifestEntry(fin.seg.seq_high, 0, filename)))

\* the process dies inside a call of Store::flush, at the point at; the
\* pending records of the WAL buffer are lost with the memory
CrashInFlush(at) ==
  /\ alive
  /\ ended < MaxRestarts
  /\ DOMAIN memtable # {}
  /\ Gone
  /\ \E st \in {flush_until(Cur, at)} :
       /\ seg_files' = st.seg_files
       /\ manifest_file' = st.manifest_file
  /\ ended' = ended + 1
  /\ lastOp' = Op("crash", <<>>, None, FALSE, "Ok")
  /\ UNCHANGED <<wal_file, writes, tombs, issued>>
  /\ UNCHANGED harness

NextFlushCrash ==
  \/ \E path \in ConcKeys, replace_subtree \in BOOLEAN :
       Set(path, replace_subtree)
  \/ \E path \in ConcKeys : Delete(path)
  \/ \E prefix \in ConcPrefixes : DeleteSubtree(prefix)
  \/ Flush
  \/ FlusherTick
  \/ \E at \in FlushPoints : CrashInFlush(at)
  \/ Reopen

SpecFlushCrash == Init /\ [][NextFlushCrash]_vars

(***************************************************************************)
(* Crashes in the middle of Manifest::add_entry.                           *)
(***************************************************************************)
\* the files flush_memtable_locked has written when the process dies inside
\* the writeln! of add_entry, with the first n bytes of the line in
\* manifest.log
flush_until_line(st, n) ==
  LET filename == SegFileName(st.seq)
      writer == WriteEntries(writer_new(filename), st.memtable,
                             SortedKeys(DOMAIN st.memtable))
  IN Let(writer_finish(writer), LAMBDA fin :
     [st EXCEPT
        !.seg_files = MapPut(@, filename, fin.file),
        !.manifest_file =
          @ \o SubSeq(ManifestLine(ManifestEntry(fin.seg.seq_high, 0,
                                                  filename)), 1, n)])

\* the length of the line add_entry writes for a flush of the memtable:
\* seq_high, '|', level, '|', filename, '\n'
ManifestLineLen ==
  Len(ManifestLine(ManifestEntry(seq, 0, SegFileName(seq))))

\* the process dies inside a call of Store::flush, in the writeln! of
\* add_entry, after n bytes of the line
CrashInAddEntry(n) ==
  /\ alive
  /\ ended < MaxRestarts
  /\ DOMAIN memtable # {}
  /\ n < ManifestLineLen
  /\ Gone
  /\ \E st \in {flush_until_line(Cur, n)} :
       /\ seg_files' = st.seg_files
       /\ manifest_file' = st.manifest_file
  /\ ended' = ended + 1
  /\ lastOp' = Op("crash", <<>>, None, FALSE, "Ok")
  /\ UNCHANGED <<wal_file, writes, tombs, issued>>
  /\ UNCHANGED harness

\* the lengths of the torn line explored: inside seq_high, after the first
\* '|', after the second, inside the filename
TornLineLens == {1, 2, 4, 9}

NextManifest ==
  \/ \E path \in ConcKeys, replace_subtree \in BOOLEAN :
       Set(path, replace_subtree)
  \/ \E path \in ConcKeys : Delete(path)
  \/ Flush
  \/ FlusherTick
  \/ \E n \in TornLineLens : CrashInAddEntry(n)
  \/ Reopen

SpecManifest == Init /\ [][NextManifest]_vars

(***************************************************************************)
(* Drop for Store and the flusher thread, lock by lock.  sync_now holds    *)
(* the mutex of the WAL buffer from its first line to its return; Drop     *)
(* holds the shutdown mutex from its first line to its return.  Callers    *)
(* make their calls before the Store is dropped.                           *)
(***************************************************************************)
\* the variables the steps of Drop and of the flusher leave alone
shut_frame ==
  <<writes, tombs, issued, seg_writer, seg_handle, seg_file, seg_added,
    callers, assigned, cache, cache_size, loaders, locks>>

\* the fields of StoreInner, the manifest and the segment files
inner_state ==
  <<seq, memtable, memtable_size, segments_l0, segments_l1, segments_l2,
    subtombs, manifest, manifest_file, seg_files>>

\* a call of set before the Store is dropped; its appends take the buffer
\* mutex
ShutSet(path, replace_subtree) ==
  /\ shut.dropper = "none"
  /\ shut.buffer_mutex = "free"
  /\ Set(path, replace_subtree)

\* a call of delete before the Store is dropped
ShutDelete(path) ==
  /\ shut.dropper = "none"
  /\ shut.buffer_mutex = "free"
  /\ Delete(path)

\* the flusher: thread::sleep returns
FlusherWakes ==
  /\ shut.flusher = "sleep"
  /\ shut' = [shut EXCEPT !.flusher = "lock_buffer",
                          !.late_ticks = IF shut.shutdown THEN @ + 1 ELSE @]
  /\ UNCHANGED <<alive, ended, lastOp, buffer, wal_file>>
  /\ UNCHANGED inner_state
  /\ UNCHANGED shut_frame

\* the flusher: sync_now takes the buffer mutex
FlusherLocksBuffer ==
  /\ shut.flusher = "lock_buffer"
  /\ shut.buffer_mutex = "free"
  /\ shut' = [shut EXCEPT !.flusher = "sync", !.buffer_mutex = "flusher"]
  /\ UNCHANGED <<alive, ended, lastOp, buffer, wal_file>>
  /\ UNCHANGED inner_state
  /\ UNCHANGED shut_frame

\* a sync_now whose buffer guard outlives the call: a faulty variant of
\* FlusherSyncs, on which C26 fails
FlusherSyncs_keeps_mutex ==
  /\ shut.flusher = "sync"
  /\ \E st \in {sync_now(Cur)} :
       /\ buffer' = st.buffer
       /\ wal_file' = st.wal_file
  /\ shut' = [shut EXCEPT !.flusher = "lock_shutdown"]
  /\ lastOp' = Op("tick", <<>>, None, FALSE, "Ok")
  /\ UNCHANGED <<alive, ended>>
  /\ UNCHANGED inner_state
  /\ UNCHANGED shut_frame

\* the flusher: sync_now writes the pending records and returns, which
\* releases the buffer mutex.  The buffer lives in the WAL object the
\* thread shares, also after the Store is gone.
FlusherSyncs ==
  /\ shut.flusher = "sync"
  /\ \E st \in {sync_now(Cur)} :
       /\ buffer' = st.buffer
       /\ wal_file' = st.wal_file
  /\ shut' = [shut EXCEPT !.flusher = "lock_shutdown",
                          !.buffer_mutex = "free"]
  /\ lastOp' = Op("tick", <<>>, None, FALSE, "Ok")
  /\ UNCHANGED <<alive, ended>>
  /\ UNCHANGED inner_state
  /\ UNCHANGED shut_frame

\* the flusher: shutdown.0.lock()
FlusherLocksShutdown ==
  /\ shut.flusher = "lock_shutdown"
  /\ shut.shutdown_mutex = "free"
  /\ shut' = [shut EXCEPT !.flusher = "check", !.shutdown_mutex = "flusher"]
  /\ UNCHANGED <<alive, ended, lastOp, buffer, wal_file>>
  /\ UNCHANGED inner_state
  /\ UNCHANGED shut_frame

\* the flusher: if *shutdown { break }; the guard is dropped either way
FlusherChecks ==
  /\ shut.flusher = "check"
  /\ shut' = [shut EXCEPT
                !.flusher = IF shut.shutdown THEN "ended" ELSE "sleep",
                !.shutdown_mutex = "free"]
  /\ UNCHANGED <<alive, ended, lastOp, buffer, wal_file>>
  /\ UNCHANGED inner_state
  /\ UNCHANGED shut_frame

\* Drop: lock.lock()
DropLocksShutdown ==
  /\ alive
  /\ shut.dropper = "none"
  /\ shut.shutdown_mutex = "free"
  /\ shut' = [shut EXCEPT !.dropper = "flag", !.shutdown_mutex = "dropper"]
  /\ UNCHANGED <<alive, ended, lastOp, buffer, wal_file>>
  /\ UNCHANGED inner_state
  /\ UNCHANGED shut_frame

\* Drop: *shutdown = true; cvar.notify_all()
DropSetsFlag ==
  /\ shut.dropper = "flag"
  /\ shut' = [shut EXCEPT !.dropper = "lock_buffer", !.shutdown = TRUE]
  /\ UNCHANGED <<alive, ended, lastOp, buffer, wal_file>>
  /\ UNCHANGED inner_state
  /\ UNCHANGED shut_frame

\* Drop: sync_now takes the buffer mutex, with the shutdown mutex held
DropLocksBuffer ==
  /\ shut.dropper = "lock_buffer"
  /\ shut.buffer_mutex = "free"
  /\ shut' = [shut EXCEPT !.dropper = "sync", !.buffer_mutex = "dropper"]
  /\ UNCHANGED <<alive, ended, lastOp, buffer, wal_file>>
  /\ UNCHANGED inner_state
  /\ UNCHANGED shut_frame

\* Drop: sync_now writes the pending records and returns
DropSyncs ==
  /\ shut.dropper = "sync"
  /\ \E st \in {sync_now(Cur)} :
       /\ buffer' = st.buffer
       /\ wal_file' = st.wal_file
  /\ shut' = [shut EXCEPT !.dropper = "return", !.buffer_mutex = "free"]
  /\ UNCHANGED <<alive, ended, lastOp>>
  /\ UNCHANGED inner_state
  /\ UNCHANGED shut_frame

\* Drop returns: the shutdown guard is dropped and the Store is gone
DropReturns ==
  /\ shut.dropper = "return"
  /\ shut' = [shut EXCEPT !.dropper = "done", !.shutdown_mutex = "free"]
  /\ Gone
  /\ ended' = ended + 1
  /\ lastOp' = Op("close", <<>>, None, FALSE, "Ok")
  /\ UNCHANGED <<wal_file, manifest_file, seg_files>>
  /\ UNCHANGED shut_frame

FlusherStep ==
  \/ FlusherWakes
  \/ FlusherLocksBuffer
  \/ FlusherSyncs
  \/ FlusherLocksShutdown
  \/ FlusherChecks

DropStep ==
  \/ DropLocksShutdown
  \/ DropSetsFlag
  \/ DropLocksBuffer
  \/ DropSyncs
  \/ DropReturns

NextShut ==
  \/ \E path \in ConcKeys, replace_subtree \in BOOLEAN :
       ShutSet(path, replace_subtree)
  \/ \E path \in ConcKeys : ShutDelete(path)
  \/ FlusherWakes
  \/ FlusherLocksBuffer
  \/ FlusherSyncs
  \/ FlusherLocksShutdown
  \/ FlusherChecks
  \/ DropLocksShutdown
  \/ DropSetsFlag
  \/ DropLocksBuffer
  \/ DropSyncs
  \/ DropReturns

\* both threads are scheduled: a step of the flusher, or of Drop once it
\* has begun, that stays possible is taken
SpecShut ==
  /\ Init
  /\ [][NextShut]_vars
  /\ WF_vars(FlusherStep)
  /\ WF_vars(shut.dropper # "none" /\ DropStep)

(***************************************************************************)
(* Calls with the empty path.                                              *)
(***************************************************************************)
\* the paths given to the calls: the empty string and "a"
PathInputs == {<<>>, P_a}

NextPaths ==
  \/ \E path \in PathInputs, replace_subtree \in BOOLEAN :
       Set(path, replace_subtree)
  \/ \E path \in PathInputs : Delete(path)
  \/ \E prefix \in ConcPrefixes : DeleteSubtree(prefix)
  \/ Flush
  \/ FlusherTick

SpecPaths == Init /\ [][NextPaths]_vars

(***************************************************************************)
(* Block cache.  get_or_load looks the key up under the read lock of the   *)
(* map, reads the block from the file with no lock held, and inserts and   *)
(* evicts under the write locks of the map and of the size counter.  A     *)
(* buffer is taken by its length.                                          *)
(***************************************************************************)
\* max_size of the BlockCache of the harness
CacheMax == 4

\* the (path, offset) keys of the blocks asked for
BlockKeys == {<<SegFileName(1), 7>>, <<SegFileName(1), 19>>,
              <<SegFileName(2), 7>>}

\* the sizes the callers pass; one is greater than max_size
BlockSizes == {1, 2, CacheMax + 1}

\* eviction that removes one entry at most: a faulty variant of
\* EvictOutcomes, on which C24 fails
EvictOnce(c, size) ==
  IF size > CacheMax /\ DOMAIN c # {}
  THEN {[cache |-> [j \in DOMAIN c \ {k} |-> c[j]], size |-> size - c[k]] :
          k \in DOMAIN c}
  ELSE {[cache |-> c, size |-> size]}

\* the eviction loop of get_or_load: while size > max_size and the map is
\* not empty, remove the entry cache.iter().next() gives, which can be any
\* entry of the HashMap; the map and the counter the loop can end with
RECURSIVE EvictOutcomes(_, _)
EvictOutcomes(c, size) ==
  IF size > CacheMax /\ DOMAIN c # {}
  THEN UNION {EvictOutcomes([j \in DOMAIN c \ {k} |-> c[j]], size - c[k]) :
                k \in DOMAIN c}
  ELSE {[cache |-> c, size |-> size]}

\* the variables the cache leaves alone
cache_frame ==
  <<alive, seq, memtable, memtable_size, segments_l0, segments_l1,
    segments_l2, subtombs, buffer, manifest, wal_file, manifest_file,
    seg_files, writes, tombs, issued, ended, seg_writer, seg_handle,
    seg_file, seg_added, callers, assigned, shut, locks>>

\* get_or_load that finds the key in the map and returns the buffer held
CacheHit(t, key) ==
  /\ loaders[t] = None
  /\ key \in DOMAIN cache
  /\ lastOp' = Op("get_or_load", key, None, FALSE, "hit")
  /\ UNCHANGED cache_state
  /\ UNCHANGED cache_frame

\* get_or_load that misses, up to the end of its read of size bytes
CacheLoad(t, key, size) ==
  /\ loaders[t] = None
  /\ key \notin DOMAIN cache
  /\ loaders' = [loaders EXCEPT ![t] = Some([key |-> key, size |-> size])]
  /\ UNCHANGED <<cache, cache_size, lastOp>>
  /\ UNCHANGED cache_frame

\* the rest of get_or_load: size += data.len(), insert, evict, return
CacheInsert(t) ==
  /\ loaders[t] # None
  /\ \E ld \in {Unwrap(loaders[t])} :
     \E r \in EvictOutcomes(MapPut(cache, ld.key, ld.size),
                            cache_size + ld.size) :
       /\ cache' = r.cache
       /\ cache_size' = r.size
       /\ lastOp' = Op("get_or_load", ld.key, None, FALSE,
                       IF r.size < cache_size + ld.size
                       THEN "evicted" ELSE "loaded")
  /\ loaders' = [loaders EXCEPT ![t] = None]
  /\ UNCHANGED cache_frame

NextCache ==
  \/ \E t \in Threads, key \in BlockKeys : CacheHit(t, key)
  \/ \E t \in Threads, key \in BlockKeys, size \in BlockSizes :
       CacheLoad(t, key, size)
  \/ \E t \in Threads : CacheInsert(t)

SpecCache == Init /\ [][NextCache]_vars

(***************************************************************************)
(* What the specification says of reads, over the history of the calls.    *)
(***************************************************************************)
\* a is a proper ancestor of p: p begins with a followed by '/'
IsAncestor(a, p) == Len(a) < Len(p) /\ StartsWith(p, WithSlash(a))

\* a record of key written at seq s is covered by an acknowledged subtree
\* tombstone
Covered(key, s) ==
  \E t \in tombs : StartsWith(key, t.prefix) /\ t.seq >= s

\* the acknowledged tombstones of delete_subtree calls
DTombs == {t \in tombs : t.by = "delete_subtree"}

\* what get(p) is to return: the value of the latest write on p, unless that
\* write is a delete or is covered
Expected(p) ==
  IF p \notin DOMAIN writes THEN None
  ELSE IF writes[p].kind = "delete" \/ Covered(p, writes[p].seq) THEN None
  ELSE Some(writes[p].val)

\* the value a subtree result r for prefix holds for key k, if any
InSubtree(r, prefix, k) ==
  IF r = None THEN None
  ELSE LET rel == SubSeq(k, Len(prefix) + 1, Len(k))
           hits == {i \in DOMAIN Unwrap(r) : Unwrap(r)[i][1] = rel}
       IN IF hits = {} THEN None
          ELSE Some(Unwrap(r)[CHOOSE i \in hits : TRUE][2])

\* the WAL entries whose frames are whole in wal.log, in file order
WholeFrames(chunks) ==
  LET IsWhole(c) == c.entry # None
      whole == SelectSeq(chunks, IsWhole)
  IN [i \in 1..Len(whole) |-> Unwrap(whole[i].entry)]

\* the memtable and the tombstone table after applying entries in order
RECURSIVE Applied(_, _, _)
Applied(entries, mem, subs) ==
  IF entries = <<>> THEN [memtable |-> mem, subtombs |-> subs]
  ELSE LET e == Head(entries) IN
       IF e.kind = RT_SET
       THEN Applied(Tail(entries),
                    MapPut(mem, e.key, Scalar(Unwrap(e.value), e.seq)), subs)
       ELSE IF e.kind = RT_DEL_POINT
       THEN Applied(Tail(entries), MapPut(mem, e.key, PointTomb(e.seq)), subs)
       ELSE Applied(Tail(entries), mem, MapPut(subs, e.key, e.seq))

(***************************************************************************)
(* The claims.                                                             *)
(***************************************************************************)
\* C1: in one process lifetime, get(p) of a path p without trailing '/'
\* returns the value of the write on p with the largest seq, or none if that
\* write is a delete, is covered by a subtree tombstone with tomb_seq >=
\* write_seq, or does not exist, wherever the records are stored.
C1_GetReturnsLatestWrite ==
  alive => \A p \in Keys : get(Cur, p) = Expected(p)

\* C2: flush() does not change what point reads return: for every path p,
\* get(p) after a flush() equals get(p) before it.
C2_FlushKeepsPointReads ==
  [][lastOp'.op = "flush" => \A p \in Keys : get(Cur, p)' = get(Cur, p)]_vars

\* C3: set(path, value, _) returns InvalidInput whenever any proper ancestor
\* of path is a visible scalar when it is called.
C3_SetRejectsUnderAnyScalarAncestor ==
  [][(/\ lastOp'.op = "set"
      /\ \E a \in Keys : IsAncestor(a, lastOp'.path) /\ IsSome(get(Cur, a)))
     => lastOp'.res = "InvalidInput"]_vars

\* C4: a set rejected for the tree invariant changes nothing: seq, memtable,
\* subtree tombstones, segment lists, the WAL buffer and file and the other
\* files are the same before and after the call.  These are all that get
\* reads (Cur), so every read is the same too.
C4_RejectedSetChangesNothing ==
  [][(lastOp'.op = "set" /\ lastOp'.res = "InvalidInput")
     => UNCHANGED <<seq, memtable, memtable_size, subtombs, segments_l0,
                    segments_l1, segments_l2, buffer, wal_file, manifest,
                    manifest_file, seg_files>>]_vars

\* a set was rejected for the tree invariant
C4_Witness == lastOp.op = "set" /\ lastOp.res = "InvalidInput"

\* C5: in every reachable state no path is both a visible scalar and the
\* proper ancestor of a visible scalar.
C5_NoScalarAboveScalar ==
  alive =>
    \A a \in Keys, b \in Keys :
      IsAncestor(a, b) => ~(IsSome(get(Cur, a)) /\ IsSome(get(Cur, b)))

\* C6: after set(p, v, true), get(p) returns v, and get(q) returns none for
\* every q strictly under p/ that has no later write, whether the older
\* record of q is in the memtable or in a flushed segment.
C6_ReplaceSubtreeMasksDescendants ==
  alive =>
    \A p \in Keys :
      (p \in DOMAIN writes /\ writes[p].kind = "set" /\ writes[p].replace) =>
        /\ ~Covered(p, writes[p].seq) => get(Cur, p) = Some(writes[p].val)
        /\ \A q \in Keys :
             (/\ IsAncestor(p, q)
              /\ q \in DOMAIN writes => writes[q].seq < writes[p].seq)
             => get(Cur, q) = None

\* set(p, v, true) was called over a descendant whose only record is a SET
\* in a flushed segment
C6_Witness ==
  \E p \in Keys, q \in Keys :
    /\ p \in DOMAIN writes /\ writes[p].kind = "set" /\ writes[p].replace
    /\ IsAncestor(p, q)
    /\ q \in DOMAIN writes /\ writes[q].kind = "set"
    /\ writes[q].seq < writes[p].seq
    /\ q \notin DOMAIN memtable /\ segments_l0 # <<>>
    /\ get(Cur, p) = Some(writes[p].val)

\* C7: after delete_subtree(prefix), get(q) returns none for every q under
\* the normalized prefix whose latest set precedes the call, wherever the
\* record is stored; a set(q, v, false) after the call is visible again.
C7_DeleteSubtreeMasksOlderSets ==
  alive =>
    \A q \in Keys :
      (q \in DOMAIN writes /\ writes[q].kind = "set") =>
        /\ (\E t \in DTombs : StartsWith(q, t.prefix) /\ t.seq > writes[q].seq)
           => get(Cur, q) = None
        /\ (/\ \E t \in DTombs : StartsWith(q, t.prefix)
            /\ ~Covered(q, writes[q].seq))
           => get(Cur, q) = Some(writes[q].val)

\* delete_subtree was called over a key whose only record is a SET in a
\* flushed segment
C7_Witness ==
  \E q \in Keys :
    /\ q \in DOMAIN writes /\ writes[q].kind = "set"
    /\ \E t \in DTombs : StartsWith(q, t.prefix) /\ t.seq > writes[q].seq
    /\ q \notin DOMAIN memtable /\ segments_l0 # <<>>

\* C8, for point reads: delete_subtree(prefix) leaves get(q) unchanged for
\* every path q without trailing '/' that does not begin with prefix/; a
\* scalar stored at exactly prefix is still returned.
C8_DeleteSubtreeKeepsOtherKeys ==
  [][lastOp'.op = "delete_subtree"
     => \A q \in Keys :
          ~StartsWith(q, OneTrailingSlash(lastOp'.path))
          => get(Cur, q)' = get(Cur, q)]_vars

\* delete_subtree(prefix) was called with a visible scalar stored at exactly
\* prefix
C8_Witness ==
  /\ lastOp.op = "delete_subtree"
  /\ lastOp.path \in Keys
  /\ IsSome(get(Cur, lastOp.path))

\* C8 as stated, for every path q: delete_subtree(prefix) leaves get(q)
\* unchanged for every q, subtree reads included, that does not begin with
\* prefix/.
C8_DeleteSubtreeKeepsOtherPaths ==
  [][lastOp'.op = "delete_subtree"
     => \A q \in Keys \cup SubtreeQueries :
          ~StartsWith(q, OneTrailingSlash(lastOp'.path))
          => get(Cur, q)' = get(Cur, q)]_vars

\* C9: a subtree read get(prefix) holds key k with value v exactly when the
\* point read get(k) returns v, and is none exactly when no key under prefix
\* is visible.
C9_SubtreeReadAgreesWithPointReads ==
  alive =>
    \A prefix \in SubtreeQueries :
      \E r \in {get(Cur, prefix)} :
        /\ \A k \in Keys :
             StartsWith(k, prefix) => InSubtree(r, prefix, k) = get(Cur, k)
        /\ r = None <=>
             \A k \in Keys : StartsWith(k, prefix) => get(Cur, k) = None

\* C10: after a crash between or inside WAL frame writes, reopening applies,
\* in file order, every WAL record whose frame is whole in the file, and
\* nothing else.
C10_ReopenAppliesWholeFrames ==
  (alive /\ lastOp.op = "open") =>
    [memtable |-> memtable, subtombs |-> subtombs]
      = Applied(WholeFrames(wal_file), EmptyMap, EmptyMap)

\* C11: the DEL_SUB, DEL_POINT and SET records of one set(path, value, true)
\* are recovered together: after a crash at any point and a reopen, the
\* subtree tombstone or the point tombstone of the latest replace_subtree set
\* of a path is in effect only if its SET is too.
C11_ReplaceSetReplaysAtomically ==
  (alive /\ lastOp.op = "open") =>
    \A p \in Keys :
      (p \in DOMAIN writes /\ writes[p].kind = "set" /\ writes[p].replace) =>
        ((\/ /\ WithSlash(p) \in DOMAIN subtombs
             /\ subtombs[WithSlash(p)] = writes[p].seq
          \/ /\ p \in DOMAIN memtable
             /\ memtable[p] = PointTomb(writes[p].seq))
         => /\ p \in DOMAIN memtable
            /\ memtable[p] = Scalar(writes[p].val, writes[p].seq))

\* C12: after flush() returns Ok every prior write is in the segments the
\* manifest lists: opening the directory with wal.log removed yields, for
\* every path (point or subtree), the same get result as the store gives
\* after the flush.
C12_FlushedStateNeedsNoWal ==
  (alive /\ lastOp.op = "flush") =>
    \E re \in {store_open(<<>>, manifest_file, seg_files)} :
      \A p \in Keys \cup SubtreeQueries : get(re, p) = get(Cur, p)

\* C13: a clean close and reopen is invisible to readers: after any sequence
\* of set, delete, delete_subtree and flush calls, dropping the Store (the
\* final sync_now) and opening the directory again yields, for every path p
\* (point or subtree), the same get(p) as immediately before the drop.
C13_CloseReopenKeepsReads ==
  alive =>
    \E closed \in {sync_now(Cur)} :
      \E re \in {store_open(closed.wal_file, closed.manifest_file,
                            closed.seg_files)} :
        \A p \in Keys \cup SubtreeQueries : get(re, p) = get(Cur, p)

\* the files of the segment harness
SegFiles == [f \in {SegPath} |-> seg_file]

\* what lookup(key) is to return on the segment built: the value and seq of
\* the SET record added for key, or none
SegExpected(key) ==
  LET hits == {i \in DOMAIN seg_added :
                 seg_added[i].key = key /\ seg_added[i].rec_type = RT_SET}
  IN IF hits = {} THEN None
     ELSE LET r == seg_added[CHOOSE i \in hits : TRUE]
          IN Some(<<Unwrap(r.value), r.seq>>)

\* C14: on a segment built from records added in ascending key order, both
\* on the handle finish() returns and on the handle Segment::open returns
\* for the file (which opens), lookup(key) returns (value, seq) for every
\* SET record added and none for a key not added or added as a point
\* tombstone, in the last block too; the bloom filter admits every key added.
C14_SegmentLookupRoundTrips ==
  /\ lastOp.op \in {"finish", "segment_open"} => seg_handle # None
  /\ seg_handle # None =>
       /\ \A key \in LookupKeys :
            get_from_segment(SegFiles, Unwrap(seg_handle), key)
              = SegExpected(key)
       /\ \A i \in DOMAIN seg_added :
            might_contain(Unwrap(Unwrap(seg_handle).bloom), seg_added[i].key)

\* a file of two blocks or more was opened with Segment::open, a point
\* tombstone was added, and the last SET added is found in the last block,
\* of which it is not the first key
C14_Witness ==
  /\ lastOp.op = "segment_open" /\ seg_handle # None
  /\ \E i \in DOMAIN seg_added : seg_added[i].rec_type = RT_DEL_POINT
  /\ Len(Unwrap(seg_handle).index) >= 2
  /\ \E r \in {seg_added[Len(seg_added)]} :
       /\ r.rec_type = RT_SET
       /\ StrLess(Unwrap(seg_handle).index[Len(Unwrap(seg_handle).index)][1],
                  r.key)
       /\ get_from_segment(SegFiles, Unwrap(seg_handle), r.key)
            = Some(<<Unwrap(r.value), r.seq>>)

\* the SET records among added whose key lies in [start, end), in the order
\* they were added, as scan yields them: <<key, value, seq>>
RECURSIVE SegInRange(_, _, _)
SegInRange(added, start, end) ==
  IF added = <<>> THEN <<>>
  ELSE LET r == Head(added)
       IN (IF /\ r.rec_type = RT_SET
              /\ StrLeq(start, r.key) /\ StrLess(r.key, end)
           THEN <<<<r.key, Unwrap(r.value), r.seq>>>> ELSE <<>>)
          \o SegInRange(Tail(added), start, end)

\* C15: on a segment built from sorted records, scan(start, end) returns
\* exactly the SET records whose key lies in [start, end), in ascending key
\* order, for every range, also when the block holding the first matching
\* key is indexed under a key smaller than start.
C15_SegmentScanIsExact ==
  seg_handle # None =>
    \A start \in ScanBounds, end \in ScanBounds :
      StrLess(start, end) =>
        scan_segment(SegFiles, Unwrap(seg_handle), start, end)
          = Some(SegInRange(seg_added, start, end))

\* C16: with concurrent callers, each set, delete and delete_subtree is given
\* a seq strictly greater than the seq of every mutation that was given one
\* before it, hence of every mutation that completed earlier; no two
\* mutations share a seq, and a mutation keeps the seq it was given.
C16_SeqStrictlyIncreasing ==
  /\ \A i \in DOMAIN assigned, j \in DOMAIN assigned :
       i < j => assigned[i][2] < assigned[j][2]
  /\ \A t \in Threads :
       callers[t].pc = "locked" =>
         /\ assigned[Len(assigned)] = <<t, callers[t].seq>>
         /\ \A i \in DOMAIN callers[t].todo :
              callers[t].todo[i].seq = callers[t].seq
  /\ \A p \in DOMAIN writes :
       \E i \in DOMAIN assigned : assigned[i][2] = writes[p].seq
  /\ \A tb \in tombs : \E i \in DOMAIN assigned : assigned[i][2] = tb.seq

\* two threads were given a seq each, and the second holds the write lock
\* with records still to append
C16_Witness ==
  /\ Len(assigned) >= 2
  /\ assigned[1][1] # assigned[2][1]
  /\ \E t \in Threads : callers[t].pc = "locked" /\ callers[t].todo # <<>>

\* the seqs of the records in the blocks of the file of a loaded segment,
\* as Segment::open delimits them: in the blocks the 8-byte integers are the
\* seq fields of the records
SegmentSeqs(seg) ==
  Let(segment_open(seg.path, seg_files[seg.path]), LAMBDA h :
    IF h = None THEN {}
    ELSE LET blocks == Slice(seg_files[seg.path], MAGIC_LEN,
                             Unwrap(h).index_start)
         IN {blocks[i].v : i \in {j \in DOMAIN blocks :
                                     blocks[j].k = "int" /\ blocks[j].w = 8}})

\* the seqs of the records the store holds: in the memtable, in the table
\* of subtree tombstones, and in the segments it loaded
KnownSeqs ==
  {memtable[k].seq : k \in DOMAIN memtable}
  \cup {subtombs[k] : k \in DOMAIN subtombs}
  \cup UNION {SegmentSeqs(AllSegments(Cur)[i]) :
                i \in DOMAIN AllSegments(Cur)}

\* C17: after Store::open, also after a crash, seq is at least the seq of
\* every record replayed from wal.log and of every record in every loaded
\* segment, and every mutation then gets a seq strictly greater than the
\* seq of every record the store holds.
C17_OpenRestoresSeq ==
  /\ [](alive /\ lastOp.op = "open" => \A s \in KnownSeqs : seq >= s)
  /\ [][issued' # issued => \A s \in KnownSeqs : seq' > s]_vars

\* after a crash and a reopen that loaded a segment and replayed records, a
\* mutation was given its seq
C17_Witness ==
  /\ alive /\ ended >= 1
  /\ lastOp.op \in {"set", "delete", "delete_subtree"} /\ lastOp.res = "Ok"
  /\ segments_l0 # <<>>
  /\ \E s \in SegmentSeqs(segments_l0[1]) : s < seq
  /\ WholeFrames(wal_file) # <<>>

\* the WAL in append order: the frames of wal.log in file order, followed
\* by the pending buffer
WalOrder == WholeFrames(wal_file) \o buffer

\* C18: with concurrent callers, seq order and WAL append order agree: every
\* record of a mutation with a smaller seq precedes every record of a
\* mutation with a greater seq in the WAL (wal.log followed by the pending
\* buffer), so the seqs read in file order are non-decreasing; wal.log holds
\* whole frames only and every record carries the seq given to its mutation.
C18_WalOrderFollowsSeq ==
  /\ \A i \in DOMAIN WalOrder, j \in DOMAIN WalOrder :
       i < j => WalOrder[i].seq <= WalOrder[j].seq
  /\ \A i \in DOMAIN WalOrder :
       \E k \in DOMAIN assigned : assigned[k][2] = WalOrder[i].seq
  /\ wal_file # <<>> => Len(wal_file) = Len(WholeFrames(wal_file)) + 1
  /\ \A t \in Threads :
       callers[t].pc = "locked" =>
         \A i \in DOMAIN WalOrder : WalOrder[i].seq <= callers[t].seq

\* two threads made a mutation each; the records of the first are in
\* wal.log, and the flusher ran between two appends of the second, a set
\* with replace_subtree, whose records are partly in wal.log and partly
\* pending
C18_Witness ==
  /\ Len(assigned) >= 2
  /\ assigned[1][1] # assigned[2][1]
  /\ buffer # <<>>
  /\ \E i \in DOMAIN WholeFrames(wal_file), j \in DOMAIN WholeFrames(wal_file) :
       /\ WholeFrames(wal_file)[i].seq < WholeFrames(wal_file)[j].seq
       /\ WholeFrames(wal_file)[j].seq = buffer[1].seq

\* the WAL entry e is a whole frame of the file chunks
InFile(chunks, e) == \E j \in DOMAIN chunks : chunks[j].entry = Some(e)

\* C19: while the process runs and the flusher is scheduled fairly, every
\* record the WAL accepted is eventually a whole frame of wal.log with no
\* further call: pending records lead to an empty buffer, a record leaves
\* the buffer only as a whole frame of wal.log, and a frame of wal.log
\* stays; no call returns with more than WAL_SYNC_PENDING records pending,
\* the append that passes the threshold syncing at once.
C19_PendingRecordsGetSynced ==
  /\ (buffer # <<>>) ~> (buffer = <<>>)
  /\ [](Len(buffer) <= WAL_SYNC_PENDING)
  /\ [][/\ \A i \in DOMAIN buffer :
            \/ \E j \in DOMAIN buffer' : buffer'[j] = buffer[i]
            \/ InFile(wal_file', buffer[i])
        /\ \A j \in DOMAIN wal_file : wal_file'[j] = wal_file[j]]_vars

\* a set with replace_subtree passed the threshold in its second append:
\* its first two records were synced at once with those pending before it,
\* and its third is pending
C19_Witness ==
  /\ lastOp.op = "set" /\ lastOp.replace /\ lastOp.res = "Ok"
  /\ Len(buffer) = 1
  /\ Len(WholeFrames(wal_file)) > WAL_SYNC_PENDING
  /\ WholeFrames(wal_file)[Len(WholeFrames(wal_file))].seq = buffer[1].seq

\* wal.log begins with the whole magic and holds, after it, a chunk that is
\* not a whole frame followed by a whole frame: the reader meets a CRC
\* mismatch or a length that runs over the record before the end of the file
MidStreamCorruption ==
  /\ wal_file # <<>>
  /\ wal_file[1].cells = <<Bytes("magic", WAL_MAGIC_LEN, WAL_MAGIC)>>
  /\ \E i \in DOMAIN wal_file, j \in DOMAIN wal_file :
       /\ 1 < i /\ i < j
       /\ wal_file[i].entry = None
       /\ wal_file[j].entry # None

\* C20: when wal.log holds a corrupt frame followed by further frames,
\* Store::open fails instead of returning a store that leaves out the
\* records after the corruption.
C20_MidStreamCorruptionFailsOpen ==
  (alive /\ lastOp.op = "open" /\ MidStreamCorruption) => lastOp.res # "Ok"

\* C21: a failed sync_now loses nothing: every record that was pending is
\* still pending afterwards or is a whole frame of wal.log, so that every
\* seq given to a mutation is the seq of a record in wal.log or in the
\* pending buffer.
C21_FailedSyncLosesNothing ==
  alive => \A s \in 1..seq : \E i \in DOMAIN WalOrder : WalOrder[i].seq = s

\* the segment filenames listed in the manifest.log mfile
Listed(mfile) ==
  {manifest_load(mfile)[i].filename : i \in DOMAIN manifest_load(mfile)}

\* C22: segments are immutable: no step, a flush after a reopening
\* included, changes or removes a segment file that manifest.log lists, and
\* the entry a flush adds to manifest.log names a file that was not listed
\* before.
C22_SegmentsAreImmutable ==
  [][/\ \A f \in Listed(manifest_file) \cap DOMAIN seg_files :
          f \in DOMAIN seg_files' /\ seg_files'[f] = seg_files[f]
     /\ \A i \in DOMAIN manifest_load(manifest_file') :
          i > Len(manifest_load(manifest_file)) =>
            manifest_load(manifest_file')[i].filename
              \notin Listed(manifest_file)]_vars

\* C23: every key the writer added passes might_contain, on the filter of
\* the handle finish returns and on the filter Segment::open reads back
\* from the file with bit_count = bloom_size * 8: no false negative.
C23_BloomHasNoFalseNegative ==
  seg_handle # None =>
    /\ Unwrap(seg_handle).bloom # None
    /\ \A i \in DOMAIN seg_added :
         might_contain(Unwrap(Unwrap(seg_handle).bloom), seg_added[i].key)

\* Segment::open read the filter of a segment of two keys or more back
\* from the file; the filter has as many bits as the writer's and rejects
\* a key that was not added
C23_Witness ==
  /\ lastOp.op = "segment_open" /\ lastOp.res = "Ok"
  /\ Len(seg_added) >= 2
  /\ Unwrap(Unwrap(seg_handle).bloom).bit_count = BLOOM_BITS
  /\ \E k \in SegKeys : ~might_contain(Unwrap(Unwrap(seg_handle).bloom), k)

\* the bytes of the buffers the map holds
RECURSIVE CacheBytes(_)
CacheBytes(c) ==
  IF DOMAIN c = {} THEN 0
  ELSE LET k == CHOOSE k \in DOMAIN c : TRUE
       IN c[k] + CacheBytes([j \in DOMAIN c \ {k} |-> c[j]])

\* the greatest size of a block
MaxBlockSize == CHOOSE n \in BlockSizes : \A m \in BlockSizes : m <= n

\* C24: when no get_or_load is in progress, the buffers the block cache
\* map holds take max_size bytes plus the size of one block at most, for
\* every sequence of get_or_load calls and every block size.
C24_CacheBytesBounded ==
  (\A t \in Threads : loaders[t] = None) =>
    CacheBytes(cache) <= CacheMax + MaxBlockSize

\* no get_or_load is in progress; two loads of one key have been counted
\* twice, the last insert evicted an entry, and the map still holds a
\* buffer
C24_Witness ==
  /\ \A t \in Threads : loaders[t] = None
  /\ lastOp.op = "get_or_load" /\ lastOp.res = "evicted"
  /\ DOMAIN cache # {}
  /\ cache_size > CacheBytes(cache)

\* C25: a set or a delete with the empty path fails with an invalid-path
\* error and changes nothing: after the call no memtable entry and no WAL
\* record has the empty key; a get of the empty path fails too.
C25_EmptyPathIsRejected ==
  (lastOp.op \in {"set", "delete"} /\ lastOp.path = <<>>) =>
    /\ lastOp.res = "InvalidPath"
    /\ <<>> \notin DOMAIN memtable
    /\ \A i \in DOMAIN WalOrder : WalOrder[i].key # <<>>
    /\ IsErr(get(Cur, <<>>))

\* C26: once Drop for Store has begun, Drop completes and the flusher
\* thread sees the shutdown flag and ends; the flusher begins one tick at
\* most after the flag is set; Drop and the flusher never wait for each
\* other's mutex at the same time.
C26_DropAndFlusherTerminate ==
  /\ (shut.dropper # "none") ~>
       (shut.dropper = "done" /\ shut.flusher = "ended")
  /\ [](shut.late_ticks <= 1)
  /\ [](~(/\ shut.flusher = "lock_shutdown" /\ shut.shutdown_mutex = "dropper"
          /\ shut.dropper = "lock_buffer" /\ shut.buffer_mutex = "flusher"))

\* Drop has returned after it had to wait for the buffer mutex the flusher
\* held, and the flusher, which began a tick after the flag was set, has
\* ended; the records that were pending are in wal.log
C26_Witness ==
  /\ shut.dropper = "done" /\ shut.flusher = "ended"
  /\ shut.late_ticks = 1
  /\ buffer = <<>>
  /\ WholeFrames(wal_file) # <<>>

\* C27: after a crash at any point, a crash in the middle of a memtable
\* flush included, the recovered mutations are closed under smaller seqs:
\* when the reopened store holds a record with seq s, every acknowledged
\* subtree tombstone with a smaller seq is in its tombstone table, and the
\* latest acknowledged write of every key with a smaller seq is held too.
C27_RecoveryIsPrefixClosed ==
  (alive /\ lastOp.op = "open") =>
    \A s \in KnownSeqs :
      /\ \A t \in tombs :
           t.seq < s => /\ t.prefix \in DOMAIN subtombs
                        /\ subtombs[t.prefix] >= t.seq
      /\ \A p \in DOMAIN writes :
           writes[p].seq < s => writes[p].seq \in KnownSeqs

\* the positions in the WAL of the records with seq s
SeqPositions(s) == {i \in DOMAIN WalOrder : WalOrder[i].seq = s}

\* C28: when a set has made its appends, the WAL (wal.log followed by the
\* pending buffer) holds for its seq, at consecutive positions, the three
\* records DEL_SUB(path + "/"), DEL_POINT(path), SET(path, value) in this
\* order if replace_subtree is true, and the SET record alone otherwise.
C28_SetAppendsItsRecordsInOrder ==
  \A t \in Threads :
    (callers[t].pc = "locked" /\ callers[t].todo = <<>>
       /\ callers[t].call.op = "set") =>
      \E first \in DOMAIN WalOrder :
        LET call == callers[t].call
            s == callers[t].seq
            expected ==
              IF call.replace
              THEN <<WALEntry(s, RT_DEL_SUB, WithSlash(call.path), None),
                     WALEntry(s, RT_DEL_POINT, call.path, None),
                     WALEntry(s, RT_SET, call.path, call.value)>>
              ELSE <<WALEntry(s, RT_SET, call.path, call.value)>>
        IN /\ SeqPositions(s) = first..(first + Len(expected) - 1)
           /\ \A i \in DOMAIN expected : WalOrder[first + i - 1] = expected[i]

\* a set with replace_subtree has made its three appends after a mutation
\* of the other thread, and the flusher ran between two of them
C28_Witness ==
  \E t \in Threads :
    /\ callers[t].pc = "locked" /\ callers[t].todo = <<>>
    /\ callers[t].call.op = "set" /\ callers[t].call.replace
    /\ Len(assigned) = 2 /\ assigned[1][1] # t
    /\ buffer # <<>>
    /\ buffer[1].seq = callers[t].seq
    /\ \E i \in DOMAIN WholeFrames(wal_file) :
         WholeFrames(wal_file)[i].seq = callers[t].seq

\* C29: under every interleaving of appenders and of the callers of
\* sync_now, wal.log followed by the pending buffer is the sequence of the
\* records appended so far: an append adds its record at the end, no other
\* step changes the sequence, no record is in it twice, and wal.log holds
\* whole frames only.
C29_WalIsTheAppendedSequence ==
  /\ [][IF \E t \in Threads : callers[t].pc = "locked"
                               /\ callers'[t].pc = "locked"
                               /\ callers'[t].todo # callers[t].todo
        THEN \E t \in Threads :
               /\ callers[t].pc = "locked"
               /\ callers[t].todo # <<>>
               /\ WholeFrames(wal_file') \o buffer'
                    = Append(WalOrder, Head(callers[t].todo))
        ELSE WholeFrames(wal_file') \o buffer' = WalOrder]_vars
  /\ [](\A i \in DOMAIN WalOrder, j \in DOMAIN WalOrder :
          i # j => WalOrder[i] # WalOrder[j])
  /\ [](wal_file # <<>> => Len(wal_file) = Len(WholeFrames(wal_file)) + 1)

\* a flush and a tick of the flusher have both written to wal.log, and a
\* mutation is between two of its appends with a record pending
C29_Witness ==
  /\ segments_l0 # <<>>
  /\ Len(WholeFrames(wal_file)) >= 2
  /\ buffer # <<>>
  /\ \E t \in Threads : callers[t].pc = "locked" /\ callers[t].todo # <<>>
  /\ \E i \in DOMAIN WholeFrames(wal_file) :
       WholeFrames(wal_file)[i].seq = buffer[1].seq

\* the records of the entries of the memtable mem for the keys ks, one
\* after the other: scalars as SET, point tombstones as DEL_POINT, each
\* with its own seq
RECURSIVE ExpectedRecords(_, _)
ExpectedRecords(mem, ks) ==
  IF ks = <<>> THEN <<>>
  ELSE LET k == Head(ks)
           v == mem[k]
       IN (IF v.tag = "Scalar"
           THEN SegRecord(RT_SET, k, Some(v.val), v.seq)
           ELSE SegRecord(RT_DEL_POINT, k, None, v.seq))
          \o ExpectedRecords(mem, Tail(ks))

\* the greatest seq of the entries of the memtable mem
MaxSeqOf(mem) ==
  CHOOSE s \in {mem[k].seq : k \in DOMAIN mem} :
    \A k \in DOMAIN mem : mem[k].seq <= s

C31_ManifestLoadKeepsAddedEntries ==
  alive => manifest_load(manifest_file) = manifest

(***************************************************************************)
(* The locks of the store, lock by lock.  A call is the sequence of lock   *)
(* acquisitions and releases its code makes, for each way its branches can *)
(* go; guards are released where they go out of scope.  Drop for Store     *)
(* needs the Store exclusively, so it begins when no call is in progress;  *)
(* the flusher thread runs beside everything.                              *)
(***************************************************************************)
\* the threads that call the Store
Clients == {"c1", "c2"}

Acq(lock, mode) == [op |-> "acquire", lock |-> lock, mode |-> mode]
Rel(lock) == [op |-> "release", lock |-> lock]

\* GroupCommitWAL::sync_now: the buffer mutex from its first line to its
\* return
sync_now_locks == <<Acq("buffer", "write"), Rel("buffer")>>

\* GroupCommitWAL::append: the buffer mutex, dropped before the sync_now of
\* a buffer of more than WAL_SYNC_PENDING records
append_locks(over) ==
  <<Acq("buffer", "write"), Rel("buffer")>>
  \o (IF over THEN sync_now_locks ELSE <<>>)

\* BlockCache::get_or_load: the read lock of the map for the lookup, then,
\* on a miss, the write locks of the map and of the size, released in the
\* reverse order
get_or_load_locks(hit) ==
  <<Acq("cache", "read"), Rel("cache")>>
  \o (IF hit THEN <<>>
      ELSE <<Acq("cache", "write"), Acq("size", "write"), Rel("size"),
             Rel("cache")>>)

\* the ways a get reads blocks: none (answered by the memtable), a cached
\* block, a block it loads
Reads == {"none", "hit", "miss"}

\* Store::get: the read lock of inner from its first line to its return
get_locks(read) ==
  <<Acq("inner", "read")>>
  \o (IF read = "none" THEN <<>> ELSE get_or_load_locks(read = "hit"))
  \o <<Rel("inner")>>

\* Store::flush_memtable_locked, called with the write lock of inner held
flush_memtable_locked_locks(empty) ==
  IF empty THEN <<>>
  ELSE <<Acq("manifest", "write"), Rel("manifest")>> \o sync_now_locks

\* Store::set with its tree check kept under the read lock while it takes
\* the write lock: a faulty variant, on which C35 fails
set_locks_holding_read(parent, read, replace_subtree, over, threshold) ==
  (IF parent THEN SubSeq(get_locks(read), 1, Len(get_locks(read)) - 1)
   ELSE <<>>)
  \o <<Acq("inner", "write")>>
  \o (IF replace_subtree THEN append_locks(FALSE) \o append_locks(FALSE)
      ELSE <<>>)
  \o append_locks(over)
  \o (IF threshold THEN flush_memtable_locked_locks(FALSE) ELSE <<>>)
  \o <<Rel("inner")>>

\* Store::set: the get of the parent, then the write lock of inner over
\* the appends and the flush of a full memtable
set_locks(parent, read, replace_subtree, over, threshold) ==
  (IF parent THEN get_locks(read) ELSE <<>>)
  \o <<Acq("inner", "write")>>
  \o (IF replace_subtree THEN append_locks(FALSE) \o append_locks(FALSE)
      ELSE <<>>)
  \o append_locks(over)
  \o (IF threshold THEN flush_memtable_locked_locks(FALSE) ELSE <<>>)
  \o <<Rel("inner")>>

\* Store::delete and Store::delete_subtree
delete_locks(over) ==
  <<Acq("inner", "write")>> \o append_locks(over) \o <<Rel("inner")>>

\* Store::flush
flush_locks(empty) ==
  <<Acq("inner", "write")>>
  \o flush_memtable_locked_locks(empty) \o sync_now_locks
  \o <<Rel("inner")>>

\* one turn of the loop of the flusher thread, after its sleep
flusher_locks ==
  sync_now_locks \o <<Acq("shutdown", "write"), Rel("shutdown")>>

\* Drop for Store: the shutdown mutex from its first line to its return
drop_locks ==
  <<Acq("shutdown", "write")>> \o sync_now_locks \o <<Rel("shutdown")>>

\* the calls of a client, each with the ways its branches can go
Calls ==
  {get_locks(read) : read \in Reads}
  \cup {set_locks(parent, read, replace_subtree, over, threshold) :
          parent \in BOOLEAN, read \in Reads, replace_subtree \in BOOLEAN,
          over \in BOOLEAN, threshold \in BOOLEAN}
  \cup {delete_locks(over) : over \in BOOLEAN}
  \cup {flush_locks(empty) : empty \in BOOLEAN}

\* the variables the steps on the locks leave alone
lock_frame ==
  <<alive, seq, memtable, memtable_size, segments_l0, segments_l1,
    segments_l2, subtombs, buffer, manifest, wal_file, manifest_file,
    seg_files, lastOp, writes, tombs, issued, ended, seg_writer,
    seg_handle, seg_file, seg_added, callers, assigned, cache, cache_size,
    loaders, shut>>

\* a client calls set, get, delete, delete_subtree or flush
ClientCalls(t) ==
  /\ ~locks.dropped
  /\ locks.todo[t] = <<>>
  /\ \E call \in Calls : locks' = [locks EXCEPT !.todo[t] = call]
  /\ UNCHANGED lock_frame

\* the flusher thread wakes from its sleep, unless it broke out of its loop
FlusherLoops ==
  /\ locks.todo["flusher"] = <<>>
  /\ ~locks.stopped
  /\ locks' = [locks EXCEPT !.todo["flusher"] = flusher_locks]
  /\ UNCHANGED lock_frame

\* the Store is dropped
DropBegins ==
  /\ ~locks.dropped
  /\ \A t \in Clients : locks.todo[t] = <<>>
  /\ locks' = [locks EXCEPT !.todo["dropper"] = drop_locks,
                            !.dropped = TRUE]
  /\ UNCHANGED lock_frame

\* t holds lock
Holds(t, lock) == \E h \in locks.held[lock] : h[1] = t

\* the step t is at is an acquisition
Wants(t) ==
  /\ locks.todo[t] # <<>>
  /\ Head(locks.todo[t]).op = "acquire"

\* the lock can be given in that mode: std::sync::Mutex, and RwLock with
\* readers sharing the lock
Free(lock, mode) ==
  IF mode = "read"
  THEN \A h \in locks.held[lock] : h[2] = "read"
  ELSE locks.held[lock] = {}

\* t gets the lock it is at; Drop sets the shutdown flag under its mutex
Acquire(t) ==
  /\ Wants(t)
  /\ \E step \in {Head(locks.todo[t])} :
       /\ Free(step.lock, step.mode)
       /\ locks' = [locks EXCEPT
            !.held[step.lock] = @ \cup {<<t, step.mode>>},
            !.todo[t] = Tail(@),
            !.shutdown = @ \/ (t = "dropper" /\ step.lock = "shutdown")]
  /\ UNCHANGED lock_frame

\* the guard of t goes out of scope; the flusher has read the shutdown flag
\* under its mutex and breaks out of its loop when it is set
Release(t) ==
  /\ locks.todo[t] # <<>>
  /\ \E step \in {Head(locks.todo[t])} :
       /\ step.op = "release"
       /\ locks' = [locks EXCEPT
            !.held[step.lock] = {h \in @ : h[1] # t},
            !.todo[t] = Tail(@),
            !.stopped = @ \/ (t = "flusher" /\ step.lock = "shutdown"
                              /\ locks.shutdown)]
  /\ UNCHANGED lock_frame

NextLocks ==
  \/ \E t \in Clients : ClientCalls(t)
  \/ FlusherLoops
  \/ DropBegins
  \/ \E t \in DOMAIN locks.todo : Acquire(t)
  \/ \E t \in DOMAIN locks.todo : Release(t)

SpecLocks == Init /\ [][NextLocks]_vars

\* the <<key, seq>> of the records in the blocks of the file of a loaded
\* segment, as Segment::open delimits them: a record begins with its 8-byte
\* seq, and its key follows the kind and the two lengths
SegmentKeySeqs(seg) ==
  Let(segment_open(seg.path, seg_files[seg.path]), LAMBDA h :
    IF h = None THEN {}
    ELSE LET blocks == Slice(seg_files[seg.path], MAGIC_LEN,
                             Unwrap(h).index_start)
         IN {<<blocks[i + 4].v, blocks[i].v>> :
               i \in {j \in DOMAIN blocks :
                        /\ blocks[j].k = "int" /\ blocks[j].w = 8
                        /\ j + 4 \in DOMAIN blocks
                        /\ blocks[j + 4].k = "key"}})

\* C32: in every reachable state, states after a crash and a reopening
\* included, the memtable entry of a key has a seq greater than or equal
\* to the seq of every record of that key in a loaded segment.
C32_MemtableIsNewerThanSegments ==
  alive =>
    \A i \in DOMAIN AllSegments(Cur) :
      \A r \in SegmentKeySeqs(AllSegments(Cur)[i]) :
        r[1] \in DOMAIN memtable => memtable[r[1]].seq >= r[2]

\* both sets of the race returned Ok: set('a', v1, false) and
\* set('a/b', v2, false) on a store that held neither path
BothSetsReturnedOk ==
  /\ P_a \in DOMAIN writes /\ P_ab \in DOMAIN writes
  /\ writes[P_a].kind = "set" /\ ~writes[P_a].replace
  /\ writes[P_ab].kind = "set" /\ ~writes[P_ab].replace

\* C33: the tree check and the write of set are atomic with respect to
\* concurrent writers: on a store where neither 'a' nor 'a/b' exists, no
\* interleaving of set('a', v1, false) and set('a/b', v2, false) lets both
\* return Ok with 'a' receiving the smaller seq.
C33_TreeCheckAndWriteAreAtomic ==
  ~(BothSetsReturnedOk /\ writes[P_a].seq < writes[P_ab].seq)

\* C34: in every reachable state, under any interleaving of get_or_load
\* calls, two readers that miss the same key and both insert included, the
\* size counter of the block cache equals the sum of the lengths of the
\* buffers in the map.
C34_CacheSizeIsSumOfBuffers ==
  cache_size = CacheBytes(cache)

\* t waits for u: t is at the acquisition of a lock that u holds in a mode
\* that excludes the one t asks for, or t asks to read a lock that u waits
\* to write (an RwLock that prefers writers makes the reader wait)
WaitsFor(t, u) ==
  /\ Wants(t)
  /\ LET step == Head(locks.todo[t]) IN
       \/ \E h \in locks.held[step.lock] :
            h[1] = u /\ (step.mode = "write" \/ h[2] = "write")
       \/ /\ step.mode = "read" /\ u # t /\ Wants(u)
          /\ Head(locks.todo[u]).lock = step.lock
          /\ Head(locks.todo[u]).mode = "write"

\* the threads t waits for, directly or through n others
RECURSIVE WaitsForWithin(_, _)
WaitsForWithin(t, n) ==
  LET direct == {u \in DOMAIN locks.todo : WaitsFor(t, u)} IN
  IF n = 0 THEN direct
  ELSE direct \cup UNION {WaitsForWithin(u, n - 1) : u \in direct}

\* C35: no interleaving of set, get, delete, delete_subtree, flush, the
\* flusher thread and Drop deadlocks: no thread waits, directly or through
\* other threads, for a lock it holds itself or for itself, and a set does
\* not hold the read lock of inner when it asks for the write lock.
C35_NoDeadlock ==
  /\ \A t \in DOMAIN locks.todo :
       t \notin WaitsForWithin(t, Cardinality(DOMAIN locks.todo))
  /\ \A t \in Clients :
       (Wants(t) /\ Head(locks.todo[t]) = Acq("inner", "write"))
         => ~Holds(t, "inner")

\* a get waits for the write lock a set holds, while that set waits for
\* the buffer mutex the flusher holds
C35_Witness ==
  \E t \in Clients, u \in Clients :
    /\ t # u
    /\ Wants(t) /\ Head(locks.todo[t]) = Acq("inner", "read")
    /\ WaitsFor(t, u)
    /\ WaitsFor(u, "flusher")

\* the last call was a mutation that returned the Err of the WAL
MutationReturnedErr(op) ==
  /\ op.op \in {"set", "delete", "delete_subtree"}
  /\ op.res = "Err"

\* C36: a mutation that returns Err because a WAL append or sync failed
\* leaves the store as if the call had not happened: seq, memtable and
\* subtombs are unchanged, and no record of the call (none with the seq the
\* call took) is pending in the WAL buffer or whole in wal.log, from where
\* it would be written or replayed later.
C36_FailedMutationLeavesNoTrace ==
  [][MutationReturnedErr(lastOp') =>
       /\ seq' = seq
       /\ memtable' = memtable
       /\ subtombs' = subtombs
       /\ \A i \in DOMAIN buffer' : buffer'[i].seq # next_seq(seq)
       /\ \A i \in DOMAIN WholeFrames(wal_file') :
            WholeFrames(wal_file')[i].seq # next_seq(seq)]_vars

====
